---- MODULE Spec2Model ----
(***************************************************************************)
(* Total Chaos UNO: the card / deck / move data model, the move-           *)
(* contributing rules and the turn engine, as state machines.              *)
(*                                                                         *)
(* Python values whose truthiness the source relies on are kept as small   *)
(* records [kind, name], so that `x and y` / `x or y` return an operand    *)
(* (as Python does) and not a Boolean.  An uncaught exception is recorded  *)
(* in an error field / variable and stops the behaviour: the source has    *)
(* no handler anywhere.                                                    *)
(***************************************************************************)
EXTENDS Integers, Sequences, FiniteSets, TLC

VARIABLES
    \* Card.__and__ on two cards, both ways round
    cardA, cardB, andAB, andBA,
    \* Move.can_replace on two moves
    mvSelf, mvOther, mvOut,
    \* one Deck object: its fields, and the last call with its outcome
    dkCards, dkMaxCards, dkCall,
    \* one hand against a top card: the rule objects' fields, whether it is
    \* the hand's owner's turn, and the last get_moves call with its outcome
    hTop, hHand, hRules, hMyTurn, hCall,
    \* one Player in a game: _moveBuffer, _legalMoves, game.discard.cards, and
    \* the last call on the player with what it returned
    hBuffer, hLegal, hDiscard, bCall,
    \* Game.ruleDeck (bottom first), Game.ruleSlots, Game.ruleDiscard,
    \* Game.totalChaos, and the last call on the rule cards with the
    \* exception that escaped it
    ruleDeck, ruleSlots, ruleDiscard, totalChaos, rCall,
    \* Game: numPlayers, toMove, direction, discard.cards, _discardHeight,
    \* drawPile.cards and players[i].hand
    numPlayers, toMove, direction, discard, discardHeight, drawPile, hands,
    \* the registry: stacking.stackCount, stacking.conditions, rule.enabled
    \* of every rule, mathRules.addition / .subtraction,
    \* attackMultiplier.multiplier (a fraction <<num, den>>),
    \* slapJacks.slapped and .shouldSlap
    stackingCount, stackingConditions, rulesEnabled, mathAddition, mathSubtraction,
    multiplier, slapped, shouldSlap,
    \* the uncaught exception that ended the game ("none" while it runs), the
    \* plays made since the last Game.update, and the last call with the
    \* state it started from
    gErr, plays, last

gameVars == <<numPlayers, toMove, direction, discard, discardHeight, drawPile, hands,
              stackingCount, stackingConditions, rulesEnabled, mathAddition,
              mathSubtraction, multiplier, slapped, shouldSlap, gErr, plays, last>>
\* the fields no call of the turn engine assigns
settingVars == <<numPlayers, stackingConditions, mathAddition, mathSubtraction, multiplier>>
cardVars == <<cardA, cardB, andAB, andBA>>
moveVars == <<mvSelf, mvOther, mvOut>>
deckVars == <<dkCards, dkMaxCards, dkCall>>
handVars == <<hTop, hHand, hRules, hMyTurn, hCall>>
bufferVars == <<hBuffer, hLegal, hDiscard, bCall>>
ruleVars == <<ruleDeck, ruleSlots, ruleDiscard, totalChaos, rCall>>

(***************************************************************************)
(* Python object model                                                     *)
(***************************************************************************)
PyBool(b) == [kind |-> "bool", name |-> IF b THEN "True" ELSE "False"]

PyObj(kind, name) == [kind |-> kind, name |-> name]

PyNone == [kind |-> "NoneType", name |-> "None"]

\* bool(x): an object of a class with neither __bool__ nor __len__ is true
Truthy(v) ==
    CASE v.kind = "bool"     -> v.name = "True"
      [] v.kind = "NoneType" -> FALSE
      [] OTHER               -> TRUE

\* x and y
PyAnd(x, y) == IF Truthy(x) THEN y ELSE x

\* x or y
PyOr(x, y) == IF Truthy(x) THEN x ELSE y

\* seq[i] for a Python index i over a sequence of length n: the 1-based
\* position, or 0 when the index is out of range (IndexError)
PyIndex(i, n) ==
    IF i >= 0 /\ i < n THEN i + 1
    ELSE IF i < 0 /\ i >= -n THEN i + n + 1
    ELSE 0

(***************************************************************************)
(* card.py                                                                 *)
(***************************************************************************)
Colors == {"wild", "red", "yellow", "green", "blue"}

Digits == {"0", "1", "2", "3", "4", "5", "6", "7", "8", "9"}

ActionTypes == {"skip", "reverse", "draw 2", "wild draw 4", "wild"}

\* str.isdigit() on a card type name
IsDigit(t) == t \in Digits

\* int(name) of a number card
IntOf(t) ==
    CASE t = "0" -> 0 [] t = "1" -> 1 [] t = "2" -> 2 [] t = "3" -> 3
      [] t = "4" -> 4 [] t = "5" -> 5 [] t = "6" -> 6 [] t = "7" -> 7
      [] t = "8" -> 8 [] t = "9" -> 9

\* Card.ACTION_CARDS: the attributes of each card type
DrawAmount(t) == CASE t = "draw 2" -> 2 [] t = "wild draw 4" -> 4 [] OTHER -> 0

IsSkip(t) == t \in {"skip", "draw 2", "wild draw 4"}

IsReverse(t) == t = "reverse"

IsWild(t) == t \in {"wild draw 4", "wild"}

Card(color, type, ruleAdditions) ==
    [color |-> color, type |-> type, ruleAdditions |-> ruleAdditions]

\* Deck.get_top() of an empty pile is None
NoCard == [color |-> "None", type |-> "None", ruleAdditions |-> {}]

CardObj(c) == IF c = NoCard THEN PyNone ELSE PyObj("Card", c.type)

TypeObj(t) == PyObj("CardType", t)

\* CardColor.__eq__
ColorEq(c1, c2) == c1 = c2

\* CardType.__eq__
TypeEq(t1, t2) == t1 = t2

\* CardType.__and__
TypeAnd(t1, t2) == PyBool(IsWild(t1) \/ t1 = t2)

\* Card.__eq__ with a Card / with a str
CardEq(a, b) == a.type = b.type /\ a.color = b.color /\ a.ruleAdditions = b.ruleAdditions

CardEqStr(c, s) == c.color = s \/ c.type = s

\* a Card.__and__ that combines the types with `&` (CardType.__and__)
CardAndAmp(a, b) == PyOr(PyBool(ColorEq(a.color, b.color)), TypeAnd(a.type, b.type))

\* Card.__and__: `self.type and other.type` is Python's logical and, which
\* returns one of the two CardType objects; CardType.__and__ is not called
CardAnd(a, b) ==
    PyOr(PyBool(ColorEq(a.color, b.color)), PyAnd(TypeObj(a.type), TypeObj(b.type)))

\* the compatibility relation of the data model: same color, same type, or
\* either card wild
Compatible(a, b) == a.color = b.color \/ a.type = b.type \/ IsWild(a.type) \/ IsWild(b.type)

\* Card.__add__ / __sub__ / __lt__ through CardType: None unless both digits
CardAdd(a, b) ==
    IF IsDigit(a.type) /\ IsDigit(b.type) THEN IntOf(a.type) + IntOf(b.type) ELSE -1000

CardSub(a, b) ==
    IF IsDigit(a.type) /\ IsDigit(b.type) THEN IntOf(a.type) - IntOf(b.type) ELSE -1000

(***************************************************************************)
(* Sequence helpers                                                        *)
(***************************************************************************)
Range(s) == {s[i] : i \in 1..Len(s)}

\* s[-k:] for k > 0
LastK(s, k) == IF Len(s) <= k THEN s ELSE SubSeq(s, Len(s) - k + 1, Len(s))

\* list.remove(x): drop the first occurrence
RECURSIVE RemoveFirst(_, _)
RemoveFirst(s, x) ==
    IF s = <<>> THEN <<>>
    ELSE IF Head(s) = x THEN Tail(s)
    ELSE <<Head(s)>> \o RemoveFirst(Tail(s), x)

SeqsUpTo(S, n) == UNION {[1..k -> S] : k \in 0..n}

(***************************************************************************)
(* move.py                                                                 *)
(***************************************************************************)
Move(middle, bottom, top, enforceMatch) ==
    [bottom |-> bottom, middle |-> middle, top |-> top, enforceMatch |-> enforceMatch]

\* Move(card): the card goes to the middle layer
MoveOfCard(c) == Move(<<c>>, <<>>, <<>>, FALSE)

\* Move.__len__
MoveLen(m) == Len(m.bottom) + Len(m.middle) + Len(m.top)

\* Move.tolist / Move.toset
MoveToList(m) == m.bottom \o m.middle \o m.top

MoveToSet(m) == Range(MoveToList(m))

\* Move.first_layer
FirstLayer(m) ==
    IF m.bottom # <<>> THEN m.bottom ELSE IF m.middle # <<>> THEN m.middle ELSE m.top

\* a can_replace whose layer test ignores the reference's bottom layer
CanReplaceNoBottom(self, other) ==
    IF MoveLen(self) # 0
    THEN IF (self.enforceMatch \/ other.enforceMatch)
            /\ ~(MoveToSet(self) = MoveToSet(other) /\ MoveLen(self) = MoveLen(other))
         THEN FALSE
         ELSE IF ~(MoveToSet(self) \subseteq MoveToSet(other))
         THEN FALSE
         ELSE Len(other.top) = 0 \/ Range(self.top) \subseteq Range(other.top)
    ELSE FALSE

\* a can_replace that demands the reference's bottom layer to be non-empty
CanReplaceStrictBottom(self, other) ==
    IF MoveLen(self) # 0
    THEN IF (self.enforceMatch \/ other.enforceMatch)
            /\ ~(MoveToSet(self) = MoveToSet(other) /\ MoveLen(self) = MoveLen(other))
         THEN FALSE
         ELSE IF ~(MoveToSet(self) \subseteq MoveToSet(other))
         THEN FALSE
         ELSE /\ Len(other.bottom) # 0 /\ Range(self.bottom) \subseteq Range(other.bottom)
              /\ (Len(other.top) = 0 \/ Range(self.top) \subseteq Range(other.top))
    ELSE FALSE

\* Move.can_replace
CanReplace(self, other) ==
    IF MoveLen(self) # 0
    THEN IF (self.enforceMatch \/ other.enforceMatch)
            /\ ~(MoveToSet(self) = MoveToSet(other) /\ MoveLen(self) = MoveLen(other))
         THEN FALSE
         ELSE IF ~(MoveToSet(self) \subseteq MoveToSet(other))
         THEN FALSE
         ELSE LET bottomMatches ==
                      Len(other.bottom) = 0 \/ Range(self.bottom) \subseteq Range(other.bottom)
                  topMatches ==
                      Len(other.top) = 0 \/ Range(self.top) \subseteq Range(other.top)
              IN  bottomMatches /\ topMatches
    ELSE FALSE

(***************************************************************************)
(* deck.py                                                                 *)
(***************************************************************************)
\* Card(color: str, ...): __init__ calls set_color before set_type, and
\* set_color reads self.type for a str color, which is not set yet
CardInitFromNames == "AttributeError"

\* Deck.fill: builds every card from color and type names; the first
\* constructor call raises, before self.cards is assigned
DeckFill(cards) == [cards |-> cards, err |-> CardInitFromNames]

\* Deck.deal(n): pop n cards from the end, refilling when the pile is empty.
\* The drawn list is returned only when no call raised.
RECURSIVE DeckDeal(_, _)
DeckDeal(cards, n) ==
    IF n = 0 THEN [cards |-> cards, drawn |-> <<>>, err |-> "none"]
    ELSE IF cards = <<>> THEN [cards |-> cards, drawn |-> <<>>, err |-> "IndexError"]
    ELSE LET popped == cards[Len(cards)]
             left == SubSeq(cards, 1, Len(cards) - 1)
             filled == IF left = <<>> THEN DeckFill(left) ELSE [cards |-> left, err |-> "none"]
         IN  IF filled.err # "none"
             THEN [cards |-> filled.cards, drawn |-> <<>>, err |-> filled.err]
             ELSE LET rest == DeckDeal(filled.cards, n - 1)
                  IN  IF rest.err # "none" THEN rest
                      ELSE [rest EXCEPT !.drawn = <<popped>> \o @]

\* Deck.append: self.cards[-self.maxCards:] is the whole list when maxCards is 0
DeckAppend(cards, new, maxCards) ==
    LET all == cards \o new
    IN  IF Len(all) > maxCards
        THEN IF maxCards = 0 THEN all ELSE LastK(all, maxCards)
        ELSE all

\* Deck.get_top
GetTop(cards) == IF cards # <<>> THEN cards[Len(cards)] ELSE NoCard

\* Deck.top_sum: [value, err]; value -1 stands for None
TopSum(cards) ==
    IF Len(cards) < 2 THEN [value |-> -1, err |-> "IndexError"]
    ELSE LET t1 == cards[Len(cards)].type
             t2 == cards[Len(cards) - 1].type
         IN  IF IsDigit(t1) /\ IsDigit(t2)
             THEN [value |-> IntOf(t1) + IntOf(t2), err |-> "none"]
             ELSE [value |-> -1, err |-> "none"]

(***************************************************************************)
(* rule.py: the move-contributing rules                                    *)
(***************************************************************************)
NoMoves == [moves |-> <<>>, err |-> "none"]

Raise(e) == [moves |-> <<>>, err |-> e]

\* `card in self.conditions`: membership in a set of str goes through
\* hash(card), a small integer built from CardType.__hash__; it meets the
\* hash of a str only by accident of the interpreter's hash seed, so the
\* lookup finds nothing
CardInConditions(card, conditions) == FALSE

\* card.is_dupe(top): Card defines no is_dupe
CardIsDupe == "AttributeError"

\* a can_stack whose 'draw same' branch accepts any compatible draw card
CanStackAnyDraw(top, card, duplicate, conditions) ==
    IF duplicate THEN [ok |-> FALSE, err |-> CardIsDupe]
    ELSE IF DrawAmount(card.type) > 0
    THEN IF Truthy(PyAnd(CardObj(card), CardObj(top)))
            /\ conditions \cap {"draw any", "draw same"} # {}
         THEN [ok |-> TRUE, err |-> "none"]
         ELSE [ok |-> FALSE, err |-> "none"]
    ELSE [ok |-> FALSE, err |-> "none"]

\* Stacking.can_stack(top, card, duplicate): [ok, err]
CanStack(top, card, duplicate, conditions) ==
    IF duplicate THEN [ok |-> FALSE, err |-> CardIsDupe]
    ELSE IF DrawAmount(card.type) > 0
    THEN IF Truthy(PyAnd(CardObj(card), CardObj(top))) /\ "draw any" \in conditions
         THEN [ok |-> TRUE, err |-> "none"]
         ELSE IF top = NoCard
         THEN [ok |-> FALSE, err |-> "AttributeError"]
         ELSE IF TypeEq(card.type, top.type) /\ "draw same" \in conditions
         THEN [ok |-> TRUE, err |-> "none"]
         ELSE [ok |-> FALSE, err |-> "none"]
    ELSE IF CardInConditions(card, conditions) /\ Truthy(PyAnd(CardObj(card), CardObj(top)))
    THEN [ok |-> TRUE, err |-> "none"]
    ELSE [ok |-> FALSE, err |-> "none"]

\* list(map(Move, filter(lambda card: self.can_stack(top, card), hand))):
\* the lambda leaves duplicate at its default, False
RECURSIVE StackableMoves(_, _, _)
StackableMoves(top, hand, conditions) ==
    IF hand = <<>> THEN NoMoves
    ELSE LET r == CanStack(top, Head(hand), FALSE, conditions)
         IN  IF r.err # "none" THEN Raise(r.err)
             ELSE LET rest == StackableMoves(top, Tail(hand), conditions)
                  IN  IF rest.err # "none" THEN rest
                      ELSE IF r.ok
                      THEN [rest EXCEPT !.moves = <<MoveOfCard(Head(hand))>> \o @]
                      ELSE rest

\* Stacking.get_moves(top, hand, duplicate)
StackingGetMoves(top, hand, conditions, stackCount, enabled) ==
    IF stackCount # 0 /\ enabled THEN StackableMoves(top, hand, conditions) ELSE NoMoves

\* MoveRule.get_moves: the abstract method's body
MoveRuleGetMoves == "NotImplementedError"

\* itertools.combinations(range(1, n + 1), 2), in order
RECURSIVE Combinations(_, _, _)
Combinations(i, j, n) ==
    IF i >= n THEN <<>>
    ELSE IF j > n THEN Combinations(i + 1, i + 2, n)
    ELSE <<<<i, j>>>> \o Combinations(i, j + 1, n)

\* the loop over the pairs in MathRules.get_moves
RECURSIVE MathPairs(_, _, _, _, _)
MathPairs(cards, pairs, value, addition, subtraction) ==
    IF pairs = <<>> THEN NoMoves
    ELSE LET card1 == cards[Head(pairs)[1]]
             card2 == cards[Head(pairs)[2]]
             bothDigits == IsDigit(card1.type) /\ IsDigit(card2.type)
             diff == CardSub(card1, card2)
             here ==
                 IF addition /\ bothDigits /\ CardAdd(card1, card2) = value
                 THEN [moves |-> <<Move(<<card1, card2>>, <<>>, <<>>, TRUE)>>, err |-> "none"]
                 ELSE IF ~subtraction THEN NoMoves
                 ELSE IF ~bothDigits THEN Raise("TypeError")
                 ELSE IF (IF diff < 0 THEN -diff ELSE diff) = value
                 THEN IF value # 0
                      THEN IF IntOf(card1.type) < IntOf(card2.type)
                           THEN [moves |-> <<Move(<<>>, <<card1>>, <<card2>>, TRUE)>>,
                                 err |-> "none"]
                           ELSE [moves |-> <<Move(<<>>, <<card2>>, <<card1>>, TRUE)>>,
                                 err |-> "none"]
                      ELSE [moves |-> <<Move(<<card1, card2>>, <<>>, <<>>, TRUE)>>,
                            err |-> "none"]
                 ELSE NoMoves
         IN  IF here.err # "none" THEN here
             ELSE LET rest == MathPairs(cards, Tail(pairs), value, addition, subtraction)
                  IN  IF rest.err # "none" THEN rest
                      ELSE [rest EXCEPT !.moves = here.moves \o @]

\* MathRules.get_moves after the call to super().get_moves
MathBody(top, hand, duplicate, addition, subtraction) ==
    IF ~IsDigit(top.type) THEN NoMoves
    ELSE LET IsNumber(c) == IsDigit(c.type)
             SameColor(c) == ColorEq(c.color, top.color)
             numberCards == IF duplicate THEN SelectSeq(hand, SameColor)
                            ELSE SelectSeq(hand, IsNumber)
         IN  IF Len(numberCards) < 2 THEN NoMoves
             ELSE MathPairs(numberCards, Combinations(1, 2, Len(numberCards)),
                            IntOf(top.type), addition, subtraction)

\* MathRules.get_moves(top, hand, duplicate): it first sets self.enabled to
\* (addition or subtraction), then calls super().get_moves, which raises
MathGetMoves(top, hand, duplicate, addition, subtraction) ==
    IF MoveRuleGetMoves # "none" THEN Raise(MoveRuleGetMoves)
    ELSE MathBody(top, hand, duplicate, addition, subtraction)

\* Depleters.get_moves(top, hand, duplicate).  `card.color in colorCards`
\* hashes a CardColor, whose __hash__ returns None (TypeError); with no
\* such card in the hand, `for _, group in colorCards` unpacks a color
\* name, none of which has two characters (ValueError)
DepletersGetMoves(top, hand, duplicate, enabled) ==
    IF ~enabled THEN NoMoves
    ELSE LET isNine == ~TypeEq(top.type, "9")
         IN  IF duplicate /\ ~isNine THEN NoMoves
             ELSE IF \E i \in 1..Len(hand) : ~CardEqStr(hand[i], "wild")
             THEN Raise("TypeError")
             ELSE Raise("ValueError")

\* JumpIns.get_moves(top, hand, duplicate)
JumpInsGetMoves(top, hand, duplicate, enabled) ==
    IF ~(enabled /\ duplicate) THEN NoMoves
    ELSE IF hand = <<>> THEN NoMoves
    ELSE Raise(CardIsDupe)

(***************************************************************************)
(* player.py: the legal moves of a hand                                    *)
(***************************************************************************)
\* update_legal_moves, normal moves: `if card and top` is Python's logical
\* and of two Card objects, not Card.__and__
RECURSIVE NormalMoves(_, _)
NormalMoves(top, hand) ==
    IF hand = <<>> THEN <<>>
    ELSE (IF Truthy(PyAnd(CardObj(Head(hand)), CardObj(top)))
          THEN <<MoveOfCard(Head(hand))>> ELSE <<>>)
             \o NormalMoves(top, Tail(hand))

\* the rules of Game.rules that are MoveRules, in the registry's order
MoveRuleNames == <<"stacking", "depleters", "jump ins", "math">>

\* rule.get_moves(top, hand, not myTurn) of the named rule; r holds the
\* rule objects' fields
RuleGetMoves(name, top, hand, duplicate, r) ==
    CASE name = "stacking" ->
             StackingGetMoves(top, hand, r.conditions, r.stackCount, r.stacking)
      [] name = "depleters" -> DepletersGetMoves(top, hand, duplicate, r.depleters)
      [] name = "jump ins" -> JumpInsGetMoves(top, hand, duplicate, r.jumpIns)
      [] name = "math" -> MathGetMoves(top, hand, duplicate, r.addition, r.subtraction)

RuleEnabled(name, r) ==
    CASE name = "stacking" -> r.stacking
      [] name = "depleters" -> r.depleters
      [] name = "jump ins" -> r.jumpIns
      [] name = "math" -> r.math

\* the loop `for rule in rules: self._legalMoves.extend(rule.get_moves(...))`
RECURSIVE ExtendWithRules(_, _, _, _, _, _)
ExtendWithRules(names, moves, top, hand, duplicate, r) ==
    IF names = <<>> THEN [moves |-> moves, err |-> "none"]
    ELSE LET got == RuleGetMoves(Head(names), top, hand, duplicate, r)
         IN  IF got.err # "none" THEN [moves |-> moves, err |-> got.err]
             ELSE ExtendWithRules(Tail(names), moves \o got.moves, top, hand, duplicate, r)

\* Player.update_legal_moves(top): [moves, err]
UpdateLegalMoves(top, hand, myTurn, r) ==
    LET normal == IF myTurn THEN NormalMoves(top, hand) ELSE <<>>
        Enabled(name) == RuleEnabled(name, r)
    IN  IF ~myTurn /\ ~r.jumpIns THEN [moves |-> <<>>, err |-> "none"]
        ELSE ExtendWithRules(SelectSeq(MoveRuleNames, Enabled), normal, top, hand,
                             ~myTurn, r)

\* whether update_legal_moves gets as far as calling MathRules.get_moves
\* (the last MoveRule of the registry), which refreshes MathRules.enabled
MathReached(top, hand, myTurn, r) ==
    LET Earlier(name) == name # "math" /\ RuleEnabled(name, r)
    IN  /\ r.math
        /\ myTurn \/ r.jumpIns
        /\ ExtendWithRules(SelectSeq(MoveRuleNames, Earlier), <<>>, top, hand,
                           ~myTurn, r).err = "none"

\* Player.is_move_complete(): the buffer as a Move, first card in the bottom
\* layer, last card in the top layer, all but the last in the middle
IsMoveComplete(buffer, legalMoves) ==
    LET move == Move(SubSeq(buffer, 1, Len(buffer) - 1), <<buffer[1]>>,
                     <<buffer[Len(buffer)]>>, FALSE)
    IN  \E k \in 1..Len(legalMoves) : CanReplace(move, legalMoves[k])

\* the hand after move_card_to_buffer for each card of the buffer
RECURSIVE HandWithout(_, _)
HandWithout(hand, buffer) ==
    IF buffer = <<>> THEN hand
    ELSE HandWithout(RemoveFirst(hand, Head(buffer)), Tail(buffer))

\* the loop of pop_buffer: hand.append(buffer.pop()), k times
RECURSIVE PopLoop(_, _, _)
PopLoop(hand, buffer, k) ==
    IF k <= 0 THEN [hand |-> hand, buffer |-> buffer, ret |-> TRUE]
    ELSE PopLoop(Append(hand, buffer[Len(buffer)]), SubSeq(buffer, 1, Len(buffer) - 1), k - 1)

\* a pop_buffer whose -1 branch clears the buffer without extending the hand
PopBufferClearsOnly(hand, buffer, numCards) ==
    IF numCards = -1 THEN [hand |-> hand, buffer |-> <<>>, ret |-> TRUE]
    ELSE IF numCards <= Len(buffer) THEN PopLoop(hand, buffer, numCards)
    ELSE [hand |-> hand, buffer |-> buffer, ret |-> FALSE]

\* Player.pop_buffer(numCards)
PopBuffer(hand, buffer, numCards) ==
    IF numCards = -1 THEN [hand |-> hand \o buffer, buffer |-> <<>>, ret |-> TRUE]
    ELSE IF numCards <= Len(buffer) THEN PopLoop(hand, buffer, numCards)
    ELSE [hand |-> hand, buffer |-> buffer, ret |-> FALSE]

\* Player.interrupt_move() with newTop the discard pile's top and myTurn the
\* test game.toMove == self.index; `self._moveBuffer[0] and newTop` is true of
\* any two cards and raises IndexError on an empty buffer
InterruptMove(topCard, hand, buffer, newTop, myTurn) ==
    IF topCard # newTop
    THEN IF myTurn /\ buffer = <<>>
         THEN [hand |-> hand, buffer |-> buffer, top |-> topCard, err |-> "IndexError"]
         ELSE IF ~myTurn
         THEN [hand |-> hand \o buffer, buffer |-> <<>>, top |-> newTop, err |-> "none"]
         ELSE [hand |-> hand, buffer |-> buffer, top |-> newTop, err |-> "none"]
    ELSE [hand |-> hand, buffer |-> buffer, top |-> newTop, err |-> "none"]

(***************************************************************************)
(* game.py and the action rules of rule.py, on a record g of the fields a  *)
(* call changes: toMove, direction, hands, drawPile, stackCount, stacking  *)
(* (Stacking.enabled), slapped, shouldSlap and err                         *)
(***************************************************************************)
\* Game.next
GameNextNoWrap(g, n) == [g EXCEPT !.toMove = g.toMove + g.direction]

GameNext(g, n) == [g EXCEPT !.toMove = (g.toMove + g.direction) % n]

\* Game.reverse
GameReverse(g) == [g EXCEPT !.direction = -g.direction]

\* Player.draw(k) of player p: hand += drawPile.deal(k)
PlayerDraw(g, p, k) ==
    LET r == DeckDeal(g.drawPile, k)
    IN  IF r.err # "none" THEN [g EXCEPT !.drawPile = r.cards, !.err = r.err]
        ELSE [g EXCEPT !.drawPile = r.cards, !.hands[p] = @ \o r.drawn]

\* the loop of Stacking.update over the new cards
RECURSIVE StackingLoop(_, _, _, _)
StackingLoop(g, pile, newCards, conds) ==
    IF newCards = <<>> THEN g
    ELSE LET r == CanStack(GetTop(pile), Head(newCards), FALSE, conds)
         IN  IF r.err # "none" THEN [g EXCEPT !.err = r.err]
             ELSE IF r.ok
             THEN StackingLoop([g EXCEPT !.stackCount = @ + DrawAmount(Head(newCards).type)],
                               pile, Tail(newCards), conds)
             ELSE [g EXCEPT !.stackCount = 0]

\* a Stacking.update without the enabled test that adds the draw amount of
\* every new card, stackable or not
RECURSIVE CountAll(_, _)
CountAll(g, newCards) ==
    IF newCards = <<>> THEN g
    ELSE CountAll([g EXCEPT !.stackCount = @ + DrawAmount(Head(newCards).type)],
                  Tail(newCards))

StackingUpdateCountsAll(g, pile, cardsPlayed, conds) ==
    CountAll([g EXCEPT !.stacking = (conds # {})], LastK(pile, cardsPlayed))

\* Stacking.update(pile, cardsPlayed)
StackingUpdate(g, pile, cardsPlayed, conds) ==
    LET g1 == [g EXCEPT !.stacking = (conds # {})]
    IN  IF ~g1.stacking THEN g1
        ELSE StackingLoop(g1, pile, LastK(pile, cardsPlayed), conds)

\* int(round(num / den)): Python rounds an exact half to the even neighbour
PyRound(num, den) ==
    LET q == num \div den
        r == num % den
    IN  IF 2 * r < den THEN q
        ELSE IF 2 * r > den THEN q + 1
        ELSE IF q % 2 = 0 THEN q ELSE q + 1

\* Stacking.flush(player, attackMultiplier)
StackingFlush(g, p, mult) ==
    LET drawn == IF g.stackCount # 0
                 THEN PlayerDraw(g, p, PyRound(g.stackCount * mult[1], mult[2]))
                 ELSE PlayerDraw(g, p, 1)
    IN  IF drawn.err # "none" THEN drawn ELSE [drawn EXCEPT !.stackCount = 0]

\* the loop of Game.cycle_hands: step k assigns seat i = -direction * k
RECURSIVE CycleLoop(_, _, _, _)
CycleLoop(h, k, d, n) ==
    IF k > n - 2 THEN h
    ELSE CycleLoop([h EXCEPT ![PyIndex(-d * k, n) - 1] = h[PyIndex(-d * k - d, n) - 1]],
                   k + 1, d, n)

\* a cycle_hands that leaves out the last assignment, of the saved hand0
CycleHandsNoHand0(g, n) ==
    IF PyIndex(g.direction, n) = 0 THEN [g EXCEPT !.err = "IndexError"]
    ELSE [g EXCEPT !.hands = CycleLoop(g.hands, 0, g.direction, n)]

\* Game.cycle_hands
CycleHands(g, n) ==
    IF PyIndex(g.direction, n) = 0 THEN [g EXCEPT !.err = "IndexError"]
    ELSE [g EXCEPT !.hands =
              [CycleLoop(g.hands, 0, g.direction, n)
                   EXCEPT ![PyIndex(g.direction, n) - 1] = g.hands[0]]]

\* Game.trade_hands(player1, player2)
TradeHands(g, player1, player2, n) ==
    IF PyIndex(player1, n) = 0 \/ PyIndex(player2, n) = 0
    THEN [g EXCEPT !.err = "IndexError"]
    ELSE LET i1 == PyIndex(player1, n) - 1
             i2 == PyIndex(player2, n) - 1
         IN  [g EXCEPT !.hands = [g.hands EXCEPT ![i1] = g.hands[i2], ![i2] = g.hands[i1]]]

\* SwappyZero.update(game)
SwappyZeroUpdate(g, on, top, n) ==
    IF on /\ TypeEq(top.type, "0") THEN CycleHands(g, n) ELSE g

\* SwappySeven.update(game); target is the index read from the input
SwappySevenUpdate(g, on, top, target, n) ==
    IF on /\ TypeEq(top.type, "7") THEN TradeHands(g, g.toMove, target, n) ELSE g

\* the penalty loop of SlapJacks.update over the players from seat i on
RECURSIVE PunishLoop(_, _, _)
PunishLoop(g, i, n) ==
    IF i >= n \/ g.err # "none" THEN g
    ELSE IF i \in Range(g.slapped) THEN PunishLoop(g, i + 1, n)
    ELSE PunishLoop(PlayerDraw(g, i, 2), i + 1, n)

\* SlapJacks.update(pile, players); the pile is g.drawPile
SlapJacksUpdate(g, on, n) ==
    IF ~on THEN g
    ELSE LET g1 == IF g.slapped # <<>> /\ g.shouldSlap THEN PunishLoop(g, 0, n) ELSE g
         IN  IF g1.err # "none" THEN g1
             ELSE LET s == TopSum(g1.drawPile)
                  IN  IF s.err # "none" THEN [g1 EXCEPT !.slapped = <<>>, !.err = s.err]
                      ELSE [g1 EXCEPT !.slapped = <<>>, !.shouldSlap = (s.value = 10)]

\* SlapJacks.slap(player): a slap is appended to the list whoever made it
SlapJacksSlap(g, on, p, n) ==
    IF ~on THEN g
    ELSE IF g.shouldSlap
    THEN LET g1 == [g EXCEPT !.slapped = Append(@, p)]
         IN  IF Len(g1.slapped) = n THEN PlayerDraw(g1, p, 2) ELSE g1
    ELSE PlayerDraw(g, p, 2)

\* Game._apply_rules: Stacking.update and SlapJacks.update are handed the
\* draw pile
ApplyRules(g, en, conds, disc, height, target, n) ==
    LET g1 == StackingUpdate(g, g.drawPile, Len(disc) - height, conds)
        g2 == IF g1.err # "none" THEN g1
              ELSE SwappyZeroUpdate(g1, en["swappy 0"], GetTop(disc), n)
        g3 == IF g2.err # "none" THEN g2
              ELSE SwappySevenUpdate(g2, en["swappy 7"], GetTop(disc), target, n)
    IN  IF g3.err # "none" THEN g3
        ELSE SlapJacksUpdate(g3, en["slap jacks"], n)

\* Game._apply_action_cards
ApplyActionCards(g, disc, n) ==
    LET topType == GetTop(disc).type
        g1 == IF IsReverse(topType) THEN GameReverse(g) ELSE g
        skip == IsSkip(topType) \/ (IsReverse(topType) /\ n = 2)
    IN  IF skip /\ ~(g1.stacking /\ g1.stackCount # 0) THEN GameNext(g1, n) ELSE g1

\* a Game.update that runs the rule pipeline whether or not a card was played
GameUpdateAlwaysApplies(g, en, conds, disc, height, target, n) ==
    LET g1 == ApplyRules(g, en, conds, disc, height, target, n)
        g2 == IF g1.err = "none" THEN ApplyActionCards(g1, disc, n) ELSE g1
    IN  IF g2.err # "none" THEN g2 ELSE GameNext(g2, n)

\* Game.update: the turn counts as a play when the discard pile is longer
\* than it was at the last update
GameUpdate(g, en, conds, disc, height, target, n) ==
    LET g1 == IF Len(disc) > height
              THEN ApplyRules(g, en, conds, disc, height, target, n)
              ELSE g
        g2 == IF Len(disc) > height /\ g1.err = "none"
              THEN ApplyActionCards(g1, disc, n)
              ELSE g1
    IN  IF g2.err # "none" THEN g2 ELSE GameNext(g2, n)

\* Game.draw
GameDraw(g, en, mult, n) ==
    LET wasAttacked == g.stackCount > 0
        g1 == StackingFlush(g, g.toMove, mult)
    IN  IF g1.err # "none" THEN g1
        ELSE IF wasAttacked \/ ~en["draw to play"] THEN GameNext(g1, n) ELSE g1

\* a JumpIns.update that only calls game.next(), from whoever is to move
JumpInsUpdateFromToMove(g, en, player, n) ==
    IF ~en["jump ins"] THEN g ELSE GameNext(g, n)

\* JumpIns.update(player, game)
JumpInsUpdate(g, en, player, n) ==
    IF ~en["jump ins"] THEN g
    ELSE GameNext([g EXCEPT !.toMove = player], n)

(***************************************************************************)
(* Bounds                                                                  *)
(***************************************************************************)
\* cards per Move, over all three layers
MaxMoveLen == 2

\* cards in a Deck object at construction
MaxDeckLen == 3

\* largest configured Deck.maxCards
MaxCapacity == 2

\* largest n of Deck.deal(n), and longest list given to Deck.append
MaxDeal == 2

\* cards in the hand given to a get_moves call
MaxHand == 2

\* players of a game
MaxPlayers == 3

\* cards Game.__init__ deals to each player (7 in the source)
HandSize == 1

\* cards left in the draw pile once Game.__init__ has dealt
Reserve == 2

\* the cuts of the pack a game starts from
MaxCut == 1

\* cards buffered for one play
MaxPlay == 2

\* plays between two calls of Game.update
MaxPlays == 1

\* players whose hands cycle_hands is called on
MaxSeats == 4
\* slaps recorded between two SlapJacks checks
MaxSlapped == 4

\* the largest index a revive / pop call is made with
MaxRuleIndex == 2
\* the most lives a TotalChaosCard is given
MaxLives == 4
\* the most calls made on the rule cards of one game
MaxCalls == 6

(***************************************************************************)
(* Card algebra: two cards, Card.__and__ evaluated both ways round         *)
(***************************************************************************)
Unset == PyObj("unset", "")

AlgebraTypes == {"3", "7", "skip", "draw 2", "wild draw 4", "wild"}

AlgebraCards == {Card(c, t, {0}) : c \in Colors, t \in AlgebraTypes}

CardIdle == cardA = NoCard /\ cardB = NoCard /\ andAB = Unset /\ andBA = Unset

CardInit == cardA \in AlgebraCards /\ cardB \in AlgebraCards /\ andAB = Unset /\ andBA = Unset

\* cardA & cardB
AndAB ==
    /\ andAB = Unset
    /\ andAB' = CardAnd(cardA, cardB)
    /\ UNCHANGED <<cardA, cardB, andBA>>

\* cardB & cardA
AndBA ==
    /\ andBA = Unset
    /\ andBA' = CardAnd(cardB, cardA)
    /\ UNCHANGED <<cardA, cardB, andAB>>

(***************************************************************************)
(* Move algebra: self.can_replace(other)                                   *)
(***************************************************************************)
MoveCards == {Card("red", "3", {0}), Card("blue", "4", {0})}

MoveLayers == SeqsUpTo(MoveCards, MaxMoveLen)

Moves ==
    {m \in [bottom : MoveLayers, middle : MoveLayers, top : MoveLayers,
            enforceMatch : BOOLEAN] : MoveLen(m) <= MaxMoveLen}

MoveIdle == mvSelf = MoveOfCard(NoCard) /\ mvOther = MoveOfCard(NoCard) /\ mvOut = "idle"

MoveInit == mvSelf \in Moves /\ mvOther \in Moves /\ mvOut = "none"

CanReplaceCall ==
    /\ mvOut = "none"
    /\ mvOut' = IF CanReplace(mvSelf, mvOther) THEN "True" ELSE "False"
    /\ UNCHANGED <<mvSelf, mvOther>>

(***************************************************************************)
(* One Deck object under deal and append                                   *)
(***************************************************************************)
DeckCards == {Card("red", "3", {0}), Card("blue", "skip", {0})}

NoCall == [op |-> "none", n |-> 0, preLen |-> 0, drawn |-> <<>>, err |-> "none"]

DeckIdle == dkCards = <<>> /\ dkMaxCards = 0 /\ dkCall = [NoCall EXCEPT !.op = "idle"]

\* Deck(cards, maxCards): the list is stored as given
DeckInit ==
    /\ dkCards \in SeqsUpTo(DeckCards, MaxDeckLen)
    /\ dkMaxCards \in 0..MaxCapacity
    /\ dkCall = NoCall

\* deck.deal(n)
DealCall(n) ==
    /\ dkCall.err = "none"
    /\ LET r == DeckDeal(dkCards, n)
       IN  /\ dkCards' = r.cards
           /\ dkCall' = [op |-> "deal", n |-> n, preLen |-> Len(dkCards),
                         drawn |-> r.drawn, err |-> r.err]
    /\ UNCHANGED dkMaxCards

\* deck.append(card) / deck.append([cards])
AppendCall(new) ==
    /\ dkCall.err = "none"
    /\ Len(dkCards) <= MaxDeckLen
    /\ dkCards' = DeckAppend(dkCards, new, dkMaxCards)
    /\ dkCall' = [op |-> "append", n |-> Len(new), preLen |-> Len(dkCards),
                  drawn |-> <<>>, err |-> "none"]
    /\ UNCHANGED dkMaxCards

(***************************************************************************)
(* One hand against a top card: the get_moves calls                        *)
(***************************************************************************)
HandTops == {Card("red", "draw 2", {0}), Card("wild", "wild draw 4", {0}),
             Card("red", "7", {0})}

HandCards == {Card("blue", "draw 2", {0}), Card("wild", "wild draw 4", {0}),
              Card("blue", "3", {0}), Card("green", "4", {0}), Card("red", "skip", {0})}

\* the rule objects' fields a get_moves call reads: Stacking.enabled,
\* .conditions, .stackCount; Depleters.enabled; JumpIns.enabled;
\* MathRules.enabled, .addition, .subtraction
RuleFields(stacking, conds, count, depleters, jumpIns, math, add, sub) ==
    [stacking |-> stacking, conditions |-> conds, stackCount |-> count,
     depleters |-> depleters, jumpIns |-> jumpIns, math |-> math,
     addition |-> add, subtraction |-> sub]

\* every rule off, as Game.__init__ builds them
RulesOff == RuleFields(FALSE, {}, 0, FALSE, FALSE, FALSE, FALSE, FALSE)

HandRules ==
    {[RulesOff EXCEPT !.stacking = TRUE, !.conditions = c, !.stackCount = n] :
         c \in {{"draw same"}, {"draw any"}, {"draw same", "draw any"}, {"skip"}},
         n \in {0, 2}}
    \cup {RulesOff,
          [RulesOff EXCEPT !.conditions = {"draw any"}, !.stackCount = 2],
          [RulesOff EXCEPT !.addition = TRUE],
          [RulesOff EXCEPT !.subtraction = TRUE],
          [RulesOff EXCEPT !.addition = TRUE, !.math = TRUE],
          [RulesOff EXCEPT !.depleters = TRUE],
          [RulesOff EXCEPT !.jumpIns = TRUE]}

NoHandCall == [op |-> "none", moves |-> <<>>, err |-> "none"]

HandIdle ==
    /\ hTop = NoCard /\ hHand = <<>> /\ hRules = RulesOff /\ hMyTurn = FALSE
    /\ hCall = [NoHandCall EXCEPT !.op = "idle"]

HandInit ==
    /\ hTop \in HandTops
    /\ hHand \in SeqsUpTo(HandCards, MaxHand)
    /\ hRules \in HandRules
    /\ hMyTurn \in BOOLEAN
    /\ hCall = NoHandCall

\* game.stacking.get_moves(top, hand)
StackingGetMovesCall ==
    /\ hCall.op = "none"
    /\ LET r == StackingGetMoves(hTop, hHand, hRules.conditions, hRules.stackCount,
                                 hRules.stacking)
       IN  hCall' = [op |-> "Stacking.get_moves", moves |-> r.moves, err |-> r.err]
    /\ UNCHANGED <<hTop, hHand, hRules, hMyTurn>>

\* game.mathRules.get_moves(top, hand): enabled is refreshed before the
\* call to the base method
MathGetMovesCall ==
    /\ hCall.op = "none"
    /\ LET r == MathGetMoves(hTop, hHand, FALSE, hRules.addition, hRules.subtraction)
       IN  hCall' = [op |-> "MathRules.get_moves", moves |-> r.moves, err |-> r.err]
    /\ hRules' = [hRules EXCEPT !.math = hRules.addition \/ hRules.subtraction]
    /\ UNCHANGED <<hTop, hHand, hMyTurn>>

\* player.update_legal_moves(top); a MathRules.get_moves it reaches
\* refreshes MathRules.enabled
UpdateLegalMovesCall ==
    /\ hCall.op = "none"
    /\ LET r == UpdateLegalMoves(hTop, hHand, hMyTurn, hRules)
       IN  hCall' = [op |-> "update_legal_moves", moves |-> r.moves, err |-> r.err]
    /\ hRules' = IF MathReached(hTop, hHand, hMyTurn, hRules)
                 THEN [hRules EXCEPT !.math = hRules.addition \/ hRules.subtraction]
                 ELSE hRules
    /\ UNCHANGED <<hTop, hHand, hMyTurn>>

(***************************************************************************)
(* Depleters.get_moves on hands that hold nines                            *)
(***************************************************************************)
DepleterTops == {Card("red", "9", {0}), Card("red", "7", {0})}

DepleterCards == {Card("red", "9", {0}), Card("red", "3", {0}), Card("blue", "9", {0}),
                  Card("blue", "4", {0})}

DepleterInit ==
    /\ hTop \in DepleterTops
    /\ hHand \in SeqsUpTo(DepleterCards, MaxHand)
    /\ hRules \in {RulesOff, [RulesOff EXCEPT !.depleters = TRUE]}
    /\ hMyTurn \in BOOLEAN
    /\ hCall = NoHandCall

\* game.depleters.get_moves(top, hand, duplicate)
DepletersGetMovesCall(duplicate) ==
    /\ hCall.op = "none"
    /\ LET r == DepletersGetMoves(hTop, hHand, duplicate, hRules.depleters)
       IN  hCall' = [op |-> IF duplicate THEN "Depleters.get_moves(duplicate)"
                            ELSE "Depleters.get_moves",
                    moves |-> r.moves, err |-> r.err]
    /\ UNCHANGED <<hTop, hHand, hRules, hMyTurn>>

(***************************************************************************)
(* The game: Game.__init__, then the calls of the turn engine              *)
(***************************************************************************)
\* Game.rules, the registry's keys
RuleNames == {"stacking", "slap jacks", "swappy 0", "swappy 7", "depleters",
              "attack multiplier", "draw to play", "revives", "jump ins", "math",
              "silent 6s"}

\* Deck('empty', maxCards=2), the discard pile
DiscardMaxCards == 2

\* the order of the cards a shuffle is cut from
BasePack ==
    <<Card("blue", "3", {0}), Card("red", "skip", {0}), Card("red", "reverse", {0}),
      Card("blue", "draw 2", {0}), Card("red", "7", {0}), Card("red", "0", {2}),
      Card("wild", "wild draw 4", {0}), Card("blue", "skip", {0})>>

\* the draw pile before Game.__init__ deals: len cards of the pack from cut
\* on, the first of them on top (the end of the list)
Pile(cut, len) == [i \in 1..len |-> BasePack[((cut + len - i) % Len(BasePack)) + 1]]

\* the rules as rule cards played so far have left them
GameConfigs ==
    {[conditions |-> {}, stacking |-> FALSE, on |-> {}, multiplier |-> <<1, 1>>],
     [conditions |-> {"draw any"}, stacking |-> FALSE, on |-> {}, multiplier |-> <<1, 1>>],
     [conditions |-> {"draw same"}, stacking |-> TRUE, on |-> {}, multiplier |-> <<1, 1>>],
     [conditions |-> {"draw any"}, stacking |-> TRUE, on |-> {"draw to play"},
      multiplier |-> <<1, 2>>],
     [conditions |-> {}, stacking |-> FALSE, on |-> {"swappy 0", "swappy 7"},
      multiplier |-> <<1, 1>>],
     [conditions |-> {}, stacking |-> FALSE, on |-> {"slap jacks"}, multiplier |-> <<1, 1>>],
     [conditions |-> {}, stacking |-> FALSE, on |-> {"jump ins", "draw to play"},
      multiplier |-> <<1, 1>>]}

NoGameCall ==
    [op |-> "none", player |-> 0, toMove |-> 0, direction |-> 1, stackCount |-> 0,
     played |-> FALSE, plays |-> <<>>]

GameIdle ==
    /\ numPlayers = 0 /\ toMove = 0 /\ direction = 1 /\ discard = <<>>
    /\ discardHeight = 0 /\ drawPile = <<>> /\ hands = <<>>
    /\ stackingCount = 0 /\ stackingConditions = {} /\ rulesEnabled = <<>>
    /\ mathAddition = FALSE /\ mathSubtraction = FALSE /\ multiplier = <<1, 1>>
    /\ slapped = <<>> /\ shouldSlap = FALSE /\ gErr = "none" /\ plays = <<>>
    /\ last = [NoGameCall EXCEPT !.op = "idle"]

\* the hands after players 0 .. n-1 have each drawn HandSize cards, in turn
RECURSIVE DealHands(_, _, _)
DealHands(g, p, n) ==
    IF p >= n \/ g.err # "none" THEN g ELSE DealHands(PlayerDraw(g, p, HandSize), p + 1, n)

\* Game.__init__ on a shuffled draw pile; the rule objects start as cfg
GameInit ==
    \E n \in 1..MaxPlayers, cut \in 0..MaxCut, cfg \in GameConfigs :
        LET pile == Pile(cut, n * HandSize + 1 + Reserve)
            first == DeckDeal(pile, 1)
            g == DealHands([toMove |-> 0, direction |-> 1,
                            hands |-> [p \in 0..(n - 1) |-> <<>>],
                            drawPile |-> first.cards, stackCount |-> 0,
                            stacking |-> cfg.stacking, slapped |-> <<>>,
                            shouldSlap |-> FALSE, err |-> first.err], 0, n)
        IN  /\ numPlayers = n
            /\ discard = DeckAppend(<<>>, first.drawn, DiscardMaxCards)
            /\ discardHeight = 1
            /\ drawPile = g.drawPile
            /\ hands = g.hands
            /\ toMove = 0 /\ direction = 1
            /\ stackingCount = 0
            /\ stackingConditions = cfg.conditions
            /\ rulesEnabled = [r \in RuleNames |->
                              IF r = "stacking" THEN cfg.stacking
                              ELSE r = "attack multiplier" \/ r \in cfg.on]
            /\ mathAddition = FALSE /\ mathSubtraction = FALSE
            /\ multiplier = cfg.multiplier
            /\ slapped = <<>> /\ shouldSlap = FALSE
            /\ gErr = g.err
            /\ plays = <<>>
            /\ last = NoGameCall

\* the fields a call of the turn engine changes
G ==
    [toMove |-> toMove, direction |-> direction, hands |-> hands, drawPile |-> drawPile,
     stackCount |-> stackingCount, stacking |-> rulesEnabled["stacking"], slapped |-> slapped,
     shouldSlap |-> shouldSlap, err |-> "none"]

Commit(g) ==
    /\ toMove' = g.toMove /\ direction' = g.direction /\ hands' = g.hands
    /\ drawPile' = g.drawPile /\ stackingCount' = g.stackCount
    /\ rulesEnabled' = [rulesEnabled EXCEPT !["stacking"] = g.stacking]
    /\ slapped' = g.slapped /\ shouldSlap' = g.shouldSlap /\ gErr' = g.err

Before(op, p) ==
    [op |-> op, player |-> p, toMove |-> toMove, direction |-> direction,
     stackCount |-> stackingCount, played |-> Len(discard) > discardHeight,
     plays |-> plays]

GameRuleFields ==
    RuleFields(rulesEnabled["stacking"], stackingConditions, stackingCount,
               rulesEnabled["depleters"],
               rulesEnabled["jump ins"], rulesEnabled["math"], mathAddition, mathSubtraction)

\* the card sequences player p can buffer from a hand, one card at a time
Buffers(hand) ==
    LET Picks(k) == {f \in [1..k -> 1..Len(hand)] :
                         \A x, y \in 1..k : x # y => f[x] # f[y]}
    IN  UNION {{[x \in 1..k |-> hand[f[x]]] : f \in Picks(k)} : k \in 1..MaxPlay}

\* player p: update_legal_moves(top), move_card_to_buffer for each card of
\* the buffer, then a play_buffered_cards that succeeds; an exception of
\* update_legal_moves ends the game
Play(p, buffer) ==
    /\ gErr = "none"
    /\ LET top == GetTop(discard)
           legal == UpdateLegalMoves(top, hands[p], p = toMove, GameRuleFields)
       IN  /\ rulesEnabled' = IF MathReached(top, hands[p], p = toMove, GameRuleFields)
                         THEN [rulesEnabled EXCEPT !["math"] = mathAddition \/ mathSubtraction]
                         ELSE rulesEnabled
           /\ IF legal.err # "none"
              THEN gErr' = legal.err /\ UNCHANGED <<discard, hands, plays>>
              ELSE /\ Len(plays) < MaxPlays
                   /\ IsMoveComplete(buffer, legal.moves)
                   /\ discard' = DeckAppend(discard, buffer, DiscardMaxCards)
                   /\ hands' = [hands EXCEPT ![p] = HandWithout(@, buffer)]
                   /\ plays' = Append(plays, [player |-> p, cards |-> buffer])
                   /\ gErr' = "none"
    /\ last' = Before("play", p)
    /\ UNCHANGED <<settingVars, toMove, direction, discardHeight, drawPile, stackingCount,
                   slapped, shouldSlap>>

\* the indices the player may type when SwappySeven asks for one
Targets ==
    IF rulesEnabled["swappy 7"] /\ Len(discard) > discardHeight
       /\ TypeEq(GetTop(discard).type, "7")
    THEN -1..numPlayers ELSE {0}

\* game.update()
Update(target) ==
    /\ gErr = "none"
    /\ LET g == GameUpdate(G, rulesEnabled, stackingConditions, discard, discardHeight, target,
                           numPlayers)
       IN  /\ Commit(g)
           /\ discardHeight' = IF g.err = "none" THEN Len(discard) ELSE discardHeight
           /\ plays' = IF g.err = "none" THEN <<>> ELSE plays
    /\ last' = Before("update", toMove)
    /\ UNCHANGED <<settingVars, discard>>

\* game.draw()
Draw ==
    /\ gErr = "none"
    /\ Commit(GameDraw(G, rulesEnabled, multiplier, numPlayers))
    /\ last' = Before("draw", toMove)
    /\ UNCHANGED <<settingVars, discard, discardHeight, plays>>

\* game.next()
NextCall ==
    /\ gErr = "none"
    /\ Commit(GameNext(G, numPlayers))
    /\ last' = Before("next", toMove)
    /\ UNCHANGED <<settingVars, discard, discardHeight, plays>>

\* game.reverse()
ReverseCall ==
    /\ gErr = "none"
    /\ Commit(GameReverse(G))
    /\ last' = Before("reverse", toMove)
    /\ UNCHANGED <<settingVars, discard, discardHeight, plays>>

\* game.jumpIns.update(p, game)
JumpIn(p) ==
    /\ gErr = "none"
    /\ Commit(JumpInsUpdate(G, rulesEnabled, p, numPlayers))
    /\ last' = Before("jump in", p)
    /\ UNCHANGED <<settingVars, discard, discardHeight, plays>>

(***************************************************************************)
(* Game.cycle_hands on the hands of a table of players                     *)
(***************************************************************************)
\* the hands a seat can hold when cycle_hands is called
SeatHands == {<<>>, <<BasePack[1]>>, <<BasePack[2], BasePack[3]>>}

\* a game in progress: any number of seats, either direction, any hands, every
\* rule off
CycleInit ==
    \E n \in 1..MaxSeats, d \in {1, -1} :
        \E h \in [0..(n - 1) -> SeatHands] :
            /\ numPlayers = n /\ toMove = 0 /\ direction = d
            /\ hands = h
            /\ discard = <<BasePack[4]>> /\ discardHeight = 1
            /\ drawPile = <<BasePack[5], BasePack[6]>>
            /\ stackingCount = 0 /\ stackingConditions = {}
            /\ rulesEnabled = [r \in RuleNames |-> r = "attack multiplier"]
            /\ mathAddition = FALSE /\ mathSubtraction = FALSE
            /\ multiplier = <<1, 1>>
            /\ slapped = <<>> /\ shouldSlap = FALSE
            /\ gErr = "none" /\ plays = <<>>
            /\ last = NoGameCall

\* game.cycle_hands()
CycleHandsCall ==
    /\ gErr = "none"
    /\ Commit(CycleHands(G, numPlayers))
    /\ last' = Before("cycle_hands", toMove)
    /\ UNCHANGED <<settingVars, discard, discardHeight, plays>>

(***************************************************************************)
(* Slap jacks: Player.slap and the SlapJacks check of Game._apply_rules on *)
(* a game in progress                                                      *)
(***************************************************************************)
\* the draw pile of the table, the last card on top
SlapPack ==
    <<Card("red", "5", {0}), Card("blue", "5", {0}), Card("red", "1", {0}),
      Card("blue", "2", {0}), Card("red", "8", {0}), Card("red", "2", {0}),
      Card("blue", "4", {0}), Card("red", "6", {0}), Card("red", "3", {0}),
      Card("blue", "7", {0})>>

\* a game in progress with the slap jacks rule on: SlapJacks.__init__ left
\* slapped empty and shouldSlap False, cut cards have left the draw pile
SlapInit ==
    \E n \in 2..MaxPlayers, cut \in 0..MaxCut :
        /\ numPlayers = n /\ toMove = 0 /\ direction = 1
        /\ hands = [p \in 0..(n - 1) |-> <<BasePack[1]>>]
        /\ discard = <<BasePack[5]>> /\ discardHeight = 1
        /\ drawPile = SubSeq(SlapPack, 1, Len(SlapPack) - cut)
        /\ stackingCount = 0 /\ stackingConditions = {}
        /\ rulesEnabled = [r \in RuleNames |-> r \in {"attack multiplier", "slap jacks"}]
        /\ mathAddition = FALSE /\ mathSubtraction = FALSE
        /\ multiplier = <<1, 1>>
        /\ slapped = <<>> /\ shouldSlap = FALSE
        /\ gErr = "none" /\ plays = <<>>
        /\ last = NoGameCall

\* player.slap() of player p
SlapCall(p) ==
    /\ gErr = "none" /\ Len(slapped) < MaxSlapped
    /\ Commit(SlapJacksSlap(G, rulesEnabled["slap jacks"], p, numPlayers))
    /\ last' = Before("slap", p)
    /\ UNCHANGED <<settingVars, discard, discardHeight, plays>>

\* self.slapJacks.update(self.drawPile, self.players)
SlapCheck ==
    /\ gErr = "none"
    /\ Commit(SlapJacksUpdate(G, rulesEnabled["slap jacks"], numPlayers))
    /\ last' = Before("slap check", toMove)
    /\ UNCHANGED <<settingVars, discard, discardHeight, plays>>

(***************************************************************************)
(* rule_cards.py and rule_slot.py.  A rule card is a record [id, kind,     *)
(* ruleName, param, isActive, lives]: id stands for the object's identity, *)
(* param is StackingCard.condition or MultiplierCard.multiplier.  A slot   *)
(* is a record [ruleCards, topActive].  The registry fields the cards      *)
(* write are carried in a record r with fields deck, slots, discard,       *)
(* totalChaos, enabled, conditions, mult and err.                          *)
(***************************************************************************)
RuleCard(id, kind, ruleName, param) ==
    [id |-> id, kind |-> kind, ruleName |-> ruleName, param |-> param,
     isActive |-> FALSE, lives |-> IF kind = "total chaos" THEN 3 ELSE 0]

\* the fields RuleSlot.__init__ assigns before its loop
RuleSlot(ruleCards, topActive) == [ruleCards |-> ruleCards, topActive |-> topActive]

IsSlot(x) == "topActive" \in DOMAIN x

\* RuleCard.__eq__: equal rule names
RuleCardEq(a, b) == a.ruleName = b.ruleName

\* list.index under RuleCard.__eq__: the first position holding an equal
\* card, 0 if there is none
IndexOfRule(cards, c) ==
    IF \E i \in DOMAIN cards : RuleCardEq(cards[i], c)
    THEN CHOOSE i \in DOMAIN cards :
             RuleCardEq(cards[i], c) /\ \A j \in 1..(i - 1) : ~RuleCardEq(cards[j], c)
    ELSE 0

\* s without its element at position i
RemoveAt(s, i) == SubSeq(s, 1, i - 1) \o SubSeq(s, i + 1, Len(s))

\* multiplier *= k and multiplier /= k on a fraction <<num, den>>
FracMul(f, k) == IF f[2] % k = 0 THEN <<f[1], f[2] \div k>> ELSE <<f[1] * k, f[2]>>

FracDiv(f, k) == IF f[1] % k = 0 THEN <<f[1] \div k, f[2]>> ELSE <<f[1], f[2] * k>>

\* Game.reset_rules: totalChaos is cleared, then the first RuleSlot(None, True)
\* of the new deck raises TypeError (len(None)) before ruleDeck is assigned
ResetRules(r) == [r EXCEPT !.totalChaos = FALSE, !.err = "TypeError"]

\* a set_active(False, slot) whose MultiplierCard divides whether or not the
\* card was active
DeactivateAlwaysDivides(c, r) ==
    CASE c.kind = "rule" ->
             IF ~c.isActive THEN [card |-> c, r |-> r]
             ELSE IF c.ruleName \in RuleNames
             THEN [card |-> [c EXCEPT !.isActive = FALSE],
                   r |-> [r EXCEPT !.enabled[c.ruleName] = FALSE]]
             ELSE [card |-> [c EXCEPT !.isActive = FALSE], r |-> [r EXCEPT !.err = "KeyError"]]
      [] c.kind = "stacking" ->
             [card |-> [c EXCEPT !.isActive = FALSE],
              r |-> [r EXCEPT !.conditions = @ \ {c.param}]]
      [] c.kind = "multiplier" ->
             [card |-> [c EXCEPT !.isActive = FALSE],
              r |-> [r EXCEPT !.mult = FracDiv(@, c.param)]]
      [] c.kind = "total chaos" ->
             IF ~c.isActive THEN [card |-> c, r |-> r]
             ELSE IF c.lives - 1 <= 0
             THEN [card |-> [c EXCEPT !.lives = @ - 1, !.isActive = FALSE], r |-> ResetRules(r)]
             ELSE [card |-> [c EXCEPT !.lives = @ - 1], r |-> r]
      [] OTHER -> [card |-> c, r |-> r]

\* card.set_active(False, slot), by class: [card, r]
Deactivate(c, r) ==
    CASE c.kind = "rule" ->
             IF ~c.isActive THEN [card |-> c, r |-> r]
             ELSE IF c.ruleName \in RuleNames
             THEN [card |-> [c EXCEPT !.isActive = FALSE],
                   r |-> [r EXCEPT !.enabled[c.ruleName] = FALSE]]
             ELSE [card |-> [c EXCEPT !.isActive = FALSE], r |-> [r EXCEPT !.err = "KeyError"]]
      [] c.kind = "stacking" ->
             [card |-> [c EXCEPT !.isActive = FALSE],
              r |-> [r EXCEPT !.conditions = @ \ {c.param}]]
      [] c.kind = "multiplier" ->
             [card |-> [c EXCEPT !.isActive = FALSE],
              r |-> IF c.isActive THEN [r EXCEPT !.mult = FracDiv(@, c.param)] ELSE r]
      [] c.kind = "total chaos" ->
             IF ~c.isActive THEN [card |-> c, r |-> r]
             ELSE IF c.lives - 1 <= 0
             THEN [card |-> [c EXCEPT !.lives = @ - 1, !.isActive = FALSE], r |-> ResetRules(r)]
             ELSE [card |-> [c EXCEPT !.lives = @ - 1], r |-> r]
      [] OTHER -> [card |-> c, r |-> r]

\* an append that always works and activates the new card, whatever the
\* slot's topActive
SlotAppendActive(slot, c) ==
    [slot |-> [slot EXCEPT !.ruleCards = Append(@, [c EXCEPT !.isActive = TRUE])],
     err |-> "none"]

\* RuleSlot.append(ruleCard): [slot, err].  Both set_active calls leave out
\* the slot argument, so each raises TypeError before the card's method
\* runs: on a non-empty slot before the card is appended, on an empty slot
\* after
SlotAppend(slot, c) ==
    IF slot.ruleCards # <<>> THEN [slot |-> slot, err |-> "TypeError"]
    ELSE [slot |-> [slot EXCEPT !.ruleCards = Append(@, c)], err |-> "TypeError"]

\* self.ruleDiscard += slot, the RuleSlot.__add__ of the discard slot: the
\* top card of the discard slot is deactivated (IndexError if there is
\* none), then the RuleSlot constructor of the sum raises TypeError in its
\* first set_active(False); ruleDiscard is never assigned
DiscardAdd(r) ==
    IF r.discard.ruleCards = <<>> THEN [r EXCEPT !.err = "IndexError"]
    ELSE LET n == Len(r.discard.ruleCards)
             d == Deactivate(r.discard.ruleCards[n], r)
         IN  [d.r EXCEPT !.discard.ruleCards[n] = d.card,
                         !.err = IF d.r.err # "none" THEN d.r.err ELSE "TypeError"]

\* Game.discard_slot(i) for an index i: ruleSlots.pop(i) is evaluated first
DiscardSlotAt(r, i) ==
    IF i >= Len(r.slots) THEN [r EXCEPT !.err = "IndexError"]
    ELSE DiscardAdd([r EXCEPT !.slots = RemoveAt(@, i + 1)])

\* Game.discard_slot(slot) for a slot object: the += raises before
\* ruleSlots.remove(slot)
DiscardSlotObject(r) == DiscardAdd(r)

\* card.set_active(True, slot), by class: [card, r].  TotalChaosCard: the
\* loop `for _, rule in self._game.rules` unpacks a key of the registry, a
\* string of more than two characters, and raises ValueError before any
\* rule is touched.  SlotRemover: Game.discard_slot(slot), isActive stays
\* False
Activate(c, r) ==
    CASE c.kind = "rule" ->
             IF c.isActive THEN [card |-> c, r |-> r]
             ELSE IF c.ruleName \in RuleNames
             THEN [card |-> [c EXCEPT !.isActive = TRUE],
                   r |-> [r EXCEPT !.enabled[c.ruleName] = TRUE]]
             ELSE [card |-> [c EXCEPT !.isActive = TRUE], r |-> [r EXCEPT !.err = "KeyError"]]
      [] c.kind = "stacking" ->
             [card |-> [c EXCEPT !.isActive = TRUE],
              r |-> [r EXCEPT !.conditions = @ \cup {c.param}]]
      [] c.kind = "multiplier" ->
             [card |-> [c EXCEPT !.isActive = TRUE],
              r |-> IF c.isActive THEN r ELSE [r EXCEPT !.mult = FracMul(@, c.param)]]
      [] c.kind = "total chaos" ->
             IF ~c.isActive
             THEN [card |-> [c EXCEPT !.isActive = TRUE, !.lives = 3],
                   r |-> [r EXCEPT !.err = "ValueError"]]
             ELSE [card |-> [c EXCEPT !.lives = @ + 1], r |-> r]
      [] OTHER -> [card |-> c, r |-> DiscardSlotObject(r)]

\* card.set_active(isActive, slot) on the card at position k of rule slot s
SetActiveAt(r, s, k, on) ==
    LET c == r.slots[s].ruleCards[k]
        d == IF on THEN Activate(c, r) ELSE Deactivate(c, r)
    IN  [d.r EXCEPT !.slots[s].ruleCards[k] = d.card]

\* Game.draw_rule(slot) for a slot object; `where` is 0 for ruleDiscard and
\* s for ruleSlots[s - 1].  The card popped from the deck is appended by
\* RuleSlot.append; a RuleSlot popped from the deck becomes an extra slot
DrawRuleOnto(r, where) ==
    IF r.totalChaos THEN r
    ELSE IF r.deck = <<>> THEN [r EXCEPT !.err = "IndexError"]
    ELSE LET item == r.deck[Len(r.deck)]
             rest == SubSeq(r.deck, 1, Len(r.deck) - 1)
         IN  IF IsSlot(item)
             THEN [r EXCEPT !.deck = rest, !.slots = Append(@, item)]
             ELSE LET a == SlotAppend(IF where = 0 THEN r.discard ELSE r.slots[where], item)
                  IN  IF where = 0
                      THEN [r EXCEPT !.deck = rest, !.discard = a.slot, !.err = a.err]
                      ELSE [r EXCEPT !.deck = rest, !.slots[where] = a.slot, !.err = a.err]

\* Game.draw_rule(i) for an index i, Game.draw_rule(None) as i = -1
DrawRule(r, i) ==
    IF i = -1 THEN DrawRuleOnto(r, 0)
    ELSE IF i >= Len(r.slots) THEN [r EXCEPT !.err = "IndexError"]
    ELSE DrawRuleOnto(r, i + 1)

\* the slot at place w: 0 is ruleDiscard, s is ruleSlots[s - 1]
SlotAtPlace(r, w) == IF w = 0 THEN r.discard ELSE r.slots[w]

PutSlot(r, w, slot) ==
    IF w = 0 THEN [r EXCEPT !.discard = slot] ELSE [r EXCEPT !.slots[w] = slot]

\* the position (from 1) of the card a revive / pop argument names in a list
\* of rule cards, 0 if there is none: an index i counts from 0, a card is
\* looked up with RuleCard.__eq__
ArgPosition(cards, arg) ==
    IF arg.byIndex THEN (IF arg.index < Len(cards) THEN arg.index + 1 ELSE 0)
    ELSE IndexOfRule(cards, [ruleName |-> arg.ruleName])

\* the exception of a lookup that finds nothing: self.ruleCards[i] and
\* list.pop(i) raise IndexError, list.remove(card) raises ValueError
ArgError(arg) == IF arg.byIndex THEN "IndexError" ELSE "ValueError"

\* slot.pop(ruleCard) on the slot at place w
SlotPop(r, w, arg) ==
    LET slot == SlotAtPlace(r, w)
        k == ArgPosition(slot.ruleCards, arg)
    IN  IF k = 0 THEN [r EXCEPT !.err = ArgError(arg)]
        ELSE PutSlot(r, w, [slot EXCEPT !.ruleCards = RemoveAt(@, k)])

\* slot.revive(ruleCard, targetSlot) from the slot at place w to the slot at
\* place t (t = w for targetSlot = 'self'): the card is removed from the
\* source (list.remove: the first card of that rule name), then appended to
\* the target with RuleSlot.append
SlotRevive(r, w, arg, t) ==
    LET slot == SlotAtPlace(r, w)
        k == ArgPosition(slot.ruleCards, arg)
    IN  IF k = 0 THEN [r EXCEPT !.err = ArgError(arg)]
        ELSE LET c == slot.ruleCards[k]
                 first == IndexOfRule(slot.ruleCards, c)
                 removed == PutSlot(r, w, [slot EXCEPT !.ruleCards = RemoveAt(@, first)])
                 a == SlotAppend(SlotAtPlace(removed, t), c)
             IN  [PutSlot(removed, t, a.slot) EXCEPT !.err = a.err]

(***************************************************************************)
(* The rule deck, the rule slots and the rule discard.  The calls are made *)
(* one after another on the same Game: a call that raises leaves the       *)
(* fields as they were at the raise, rCall.err names the exception.        *)
(***************************************************************************)
TotalChaosCard == RuleCard(1, "total chaos", "total chaos", 0)

SlotRemover == RuleCard(2, "slot remover", "slot remover", 0)

\* StackingCard 'stacking (total chaos)', MultiplierCard 'double attack' and
\* the plain RuleCard 'depleters'
StartCards == {RuleCard(3, "stacking", "stacking (total chaos)", "draw any"),
               RuleCard(4, "multiplier", "double attack", 2),
               RuleCard(5, "rule", "depleters", 0)}

\* every list of the elements of S, each once
Orders(S) == {q \in [1..Cardinality(S) -> S] : Range(q) = S}

NoRuleCall == [op |-> "none", err |-> "none", calls |-> 0]

RulesIdle ==
    /\ ruleDeck = <<>> /\ ruleSlots = <<>> /\ ruleDiscard = RuleSlot(<<>>, FALSE)
    /\ totalChaos = FALSE /\ rCall = [NoRuleCall EXCEPT !.op = "idle"]

\* the registry as Game.__init__ builds it
FreshRules ==
    [deck |-> <<>>, slots |-> <<>>, discard |-> RuleSlot(<<>>, FALSE), totalChaos |-> FALSE,
     enabled |-> [n \in RuleNames |-> n = "attack multiplier"], conditions |-> {},
     mult |-> <<1, 1>>, err |-> "none"]

\* a slot holding the cards of q, the last one on top and activated
RECURSIVE Stacked(_, _)
Stacked(q, r) ==
    IF Len(q) = 1
    THEN LET d == Activate(q[1], r) IN [d.r EXCEPT !.slots = Append(@, RuleSlot(<<d.card>>, TRUE))]
    ELSE LET under == Stacked(Tail(q), r)
             n == Len(under.slots)
         IN  [under EXCEPT !.slots[n].ruleCards = <<Head(q)>> \o @]

\* the rule cards as Game.reset_rules lays them out, on a smaller deck: the
\* TotalChaosCard at the bottom of the rule deck, an empty ruleDiscard that
\* does not activate, and the starting slots, each with its top card active
\* and the rule of that card in force
RulesInit ==
    \E q \in Orders(StartCards), cut \in 1..2 :
      \E rest \in {SubSeq(q, cut + 2, 3) \o <<SlotRemover, RuleSlot(<<>>, TRUE)>>} :
        LET one == Stacked(SubSeq(q, 1, 1), FreshRules)
            r == IF cut = 0 THEN one ELSE Stacked(SubSeq(q, 2, cut + 1), one)
        IN  /\ ruleDeck = <<TotalChaosCard>> \o rest
            /\ ruleSlots = r.slots /\ ruleDiscard = r.discard /\ totalChaos = FALSE
            /\ rulesEnabled = r.enabled /\ stackingConditions = r.conditions
            /\ multiplier = r.mult
            /\ rCall = NoRuleCall
            /\ numPlayers = 0 /\ toMove = 0 /\ direction = 1 /\ discard = <<>>
            /\ discardHeight = 0 /\ drawPile = <<>> /\ hands = <<>> /\ stackingCount = 0
            /\ mathAddition = FALSE /\ mathSubtraction = FALSE
            /\ slapped = <<>> /\ shouldSlap = FALSE /\ gErr = "none" /\ plays = <<>>
            /\ last = [NoGameCall EXCEPT !.op = "idle"]

R ==
    [deck |-> ruleDeck, slots |-> ruleSlots, discard |-> ruleDiscard,
     totalChaos |-> totalChaos, enabled |-> rulesEnabled, conditions |-> stackingConditions,
     mult |-> multiplier, err |-> "none"]

RuleCommit(r, op) ==
    /\ ruleDeck' = r.deck /\ ruleSlots' = r.slots /\ ruleDiscard' = r.discard
    /\ totalChaos' = r.totalChaos /\ rulesEnabled' = r.enabled
    /\ stackingConditions' = r.conditions /\ multiplier' = r.mult
    /\ rCall.calls < MaxCalls
    /\ rCall' = [op |-> op, err |-> r.err, calls |-> rCall.calls + 1]
    /\ UNCHANGED <<numPlayers, toMove, direction, discard, discardHeight, drawPile, hands,
                   stackingCount, mathAddition, mathSubtraction, slapped, shouldSlap, gErr,
                   plays, last>>

\* the arguments a revive / pop call names a card with
RuleArgs ==
    {[byIndex |-> TRUE, index |-> i, ruleName |-> ""] : i \in 0..MaxRuleIndex}
    \cup {[byIndex |-> FALSE, index |-> 0, ruleName |-> c.ruleName] :
              c \in {TotalChaosCard, RuleCard(5, "rule", "depleters", 0)}}

\* the places a slot can be: 0 is ruleDiscard, s is ruleSlots[s - 1]
Places == 0..Len(ruleSlots)

\* game.draw_rule(i); i = -1 stands for draw_rule(None)
DrawRuleCall(i) == RuleCommit(DrawRule(R, i), "draw_rule")

\* game.discard_slot(i) for an index i
DiscardSlotCall(i) == RuleCommit(DiscardSlotAt(R, i), "discard_slot")

\* game.discard_slot(game.ruleSlots[s - 1])
DiscardSlotObjectCall(s) == s \in 1..Len(ruleSlots) /\ RuleCommit(DiscardSlotObject(R), "discard_slot")

\* slot.revive(arg, target)
ReviveCall(w, arg, t) == RuleCommit(SlotRevive(R, w, arg, t), "revive")

\* slot.pop(arg)
PopCall(w, arg) == RuleCommit(SlotPop(R, w, arg), "pop")

\* the TotalChaosCard lying on top of rule slot s
ChaosOnTop(s) ==
    /\ s \in 1..Len(ruleSlots) /\ ruleSlots[s].ruleCards # <<>>
    /\ ruleSlots[s].ruleCards[Len(ruleSlots[s].ruleCards)].kind = "total chaos"

\* totalChaosCard.set_active(on, slot), the card on top of rule slot s
ChaosSetActive(s, on) ==
    /\ ChaosOnTop(s)
    /\ LET k == Len(ruleSlots[s].ruleCards)
       IN  /\ on => ruleSlots[s].ruleCards[k].lives < MaxLives
           /\ RuleCommit(SetActiveAt(R, s, k, on), IF on THEN "activate" ELSE "deactivate")

\* totalChaosCard.add_lives(n) for n > 0, remove_lives(-n) for n < 0
ChaosLives(s, n) ==
    /\ ChaosOnTop(s)
    /\ LET k == Len(ruleSlots[s].ruleCards)
           lives == ruleSlots[s].ruleCards[k].lives + n
       IN  /\ lives <= MaxLives /\ lives >= -1
           /\ RuleCommit([R EXCEPT !.slots[s].ruleCards[k].lives = lives],
                         IF n > 0 THEN "add_lives" ELSE "remove_lives")

\* slotRemover.set_active(True, slot), the card on top of rule slot s
RemoverSetActive(s) ==
    /\ s \in 1..Len(ruleSlots) /\ ruleSlots[s].ruleCards # <<>>
    /\ LET k == Len(ruleSlots[s].ruleCards)
       IN  /\ ruleSlots[s].ruleCards[k].kind = "slot remover"
           /\ RuleCommit(SetActiveAt(R, s, k, TRUE), "remove_slot")

(***************************************************************************)
(* set_active called on the top card of a rule slot, on slots that hold    *)
(* two StackingCards of the same condition and a MultiplierCard            *)
(***************************************************************************)
\* the second 'stacking (total chaos)' card of the rule deck
TwinStackingCard == RuleCard(6, "stacking", "stacking (total chaos)", "draw any")

TwinCards == {RuleCard(3, "stacking", "stacking (total chaos)", "draw any"),
              TwinStackingCard, RuleCard(4, "multiplier", "double attack", 2)}

NoCardCall ==
    [op |-> "none", id |-> 0, kind |-> "", was |-> FALSE, mult |-> <<1, 1>>,
     conditions |-> {}, prevOp |-> "none", prevId |-> 0, prevWas |-> FALSE,
     prevMult |-> <<1, 1>>]

\* three starting slots, one card each, the card active and its rule in force
TwinInit ==
    \E q \in Orders(TwinCards) :
        LET r == Stacked(SubSeq(q, 3, 3), Stacked(SubSeq(q, 2, 2),
                     Stacked(SubSeq(q, 1, 1), FreshRules)))
        IN  /\ ruleDeck = <<TotalChaosCard>>
            /\ ruleSlots = r.slots /\ ruleDiscard = r.discard /\ totalChaos = FALSE
            /\ rulesEnabled = r.enabled /\ stackingConditions = r.conditions
            /\ multiplier = r.mult
            /\ rCall = NoCardCall
            /\ numPlayers = 0 /\ toMove = 0 /\ direction = 1 /\ discard = <<>>
            /\ discardHeight = 0 /\ drawPile = <<>> /\ hands = <<>> /\ stackingCount = 0
            /\ mathAddition = FALSE /\ mathSubtraction = FALSE
            /\ slapped = <<>> /\ shouldSlap = FALSE /\ gErr = "none" /\ plays = <<>>
            /\ last = [NoGameCall EXCEPT !.op = "idle"]

\* card.set_active(on, slot), the card on top of rule slot s; rCall keeps
\* the card, its isActive and the registry before the call, and the same of
\* the call before
CardSetActive(s, on) ==
    /\ s \in 1..Len(ruleSlots) /\ ruleSlots[s].ruleCards # <<>>
    /\ LET k == Len(ruleSlots[s].ruleCards)
           c == ruleSlots[s].ruleCards[k]
           r == SetActiveAt(R, s, k, on)
       IN  /\ ruleDeck' = r.deck /\ ruleSlots' = r.slots /\ ruleDiscard' = r.discard
           /\ totalChaos' = r.totalChaos /\ rulesEnabled' = r.enabled
           /\ stackingConditions' = r.conditions /\ multiplier' = r.mult
           /\ rCall' = [op |-> IF on THEN "activate" ELSE "deactivate", id |-> c.id,
                        kind |-> c.kind, was |-> c.isActive, mult |-> multiplier,
                        conditions |-> stackingConditions,
                        prevOp |-> rCall.op, prevId |-> rCall.id, prevWas |-> rCall.was,
                        prevMult |-> rCall.mult]
    /\ UNCHANGED <<numPlayers, toMove, direction, discard, discardHeight, drawPile, hands,
                   stackingCount, mathAddition, mathSubtraction, slapped, shouldSlap, gErr,
                   plays, last>>

(***************************************************************************)
(* One player's move buffer: update_legal_moves, move_card_to_buffer and   *)
(* play_buffered_cards on a Player whose game holds one discard pile       *)
(***************************************************************************)
NoBufferCall == [op |-> "none", ret |-> FALSE, err |-> "none"]

BufferIdle ==
    /\ hBuffer = <<>> /\ hLegal = <<>> /\ hDiscard = <<>>
    /\ bCall = [NoBufferCall EXCEPT !.op = "idle"]

\* Player.__init__: empty buffer, no legal moves, _topCard the discard's top
BufferInit ==
    /\ HandInit
    /\ hBuffer = <<>> /\ hLegal = <<>> /\ hDiscard = <<hTop>>
    /\ bCall = NoBufferCall

\* player.update_legal_moves() with the cards still in the hand; a
\* MathRules.get_moves it reaches refreshes MathRules.enabled
BufferUpdateLegalMoves ==
    /\ bCall.err = "none"
    /\ LET r == UpdateLegalMoves(hTop, hHand, hMyTurn, hRules)
       IN  /\ hLegal' = r.moves
           /\ bCall' = [op |-> "update_legal_moves", ret |-> FALSE, err |-> r.err]
    /\ hRules' = IF MathReached(hTop, hHand, hMyTurn, hRules)
                 THEN [hRules EXCEPT !.math = hRules.addition \/ hRules.subtraction]
                 ELSE hRules
    /\ UNCHANGED <<hTop, hHand, hMyTurn, hCall, hBuffer, hDiscard>>

\* player.move_card_to_buffer(i) for an index i of the hand or outside it; a
\* negative index counts from the end of the hand
MoveCardToBuffer(i) ==
    /\ bCall.err = "none"
    /\ IF -Len(hHand) <= i /\ i < Len(hHand)
       THEN /\ hBuffer' = Append(hBuffer, hHand[PyIndex(i, Len(hHand))])
            /\ hHand' = RemoveFirst(hHand, hHand[PyIndex(i, Len(hHand))])
            /\ bCall' = [op |-> "move_card_to_buffer", ret |-> TRUE, err |-> "none"]
       ELSE /\ bCall' = [op |-> "move_card_to_buffer", ret |-> FALSE, err |-> "none"]
            /\ UNCHANGED <<hBuffer, hHand>>
    /\ UNCHANGED <<hTop, hRules, hMyTurn, hCall, hLegal, hDiscard>>

\* player.play_buffered_cards(): is_move_complete indexes the buffer, so an
\* empty buffer raises IndexError
PlayBufferedCards ==
    /\ bCall.err = "none"
    /\ IF hBuffer = <<>>
       THEN /\ bCall' = [op |-> "play_buffered_cards", ret |-> FALSE, err |-> "IndexError"]
            /\ UNCHANGED <<hBuffer, hDiscard>>
       ELSE IF IsMoveComplete(hBuffer, hLegal)
       THEN /\ hDiscard' = DeckAppend(hDiscard, hBuffer, DiscardMaxCards)
            /\ hBuffer' = <<>>
            /\ bCall' = [op |-> "play_buffered_cards", ret |-> TRUE, err |-> "none"]
       ELSE /\ bCall' = [op |-> "play_buffered_cards", ret |-> FALSE, err |-> "none"]
            /\ UNCHANGED <<hBuffer, hDiscard>>
    /\ UNCHANGED <<hTop, hHand, hRules, hMyTurn, hCall, hLegal>>

\* player.pop_buffer(n); `moved` is the number of cards the call took off
\* the buffer
PopBufferCall(n) ==
    /\ bCall.err = "none"
    /\ LET r == PopBuffer(hHand, hBuffer, n)
       IN  /\ hHand' = r.hand /\ hBuffer' = r.buffer
           /\ bCall' = [op |-> "pop_buffer", ret |-> r.ret, err |-> "none",
                        moved |-> Len(hBuffer) - Len(r.buffer)]
    /\ UNCHANGED <<hTop, hRules, hMyTurn, hCall, hLegal, hDiscard>>

\* player.interrupt_move(): hTop is the player's _topCard
InterruptMoveCall ==
    /\ bCall.err = "none"
    /\ LET r == InterruptMove(hTop, hHand, hBuffer, GetTop(hDiscard), hMyTurn)
       IN  /\ hHand' = r.hand /\ hBuffer' = r.buffer /\ hTop' = r.top
           /\ bCall' = [op |-> "interrupt_move", ret |-> FALSE, err |-> r.err,
                        moved |-> Len(hBuffer) - Len(r.buffer)]
    /\ UNCHANGED <<hRules, hMyTurn, hCall, hLegal, hDiscard>>

\* another player's play_buffered_cards puts card c on the discard pile, and
\* the game's update leaves the turn with this player or not
OtherPlayerPlays(c, turn) ==
    /\ bCall.err = "none"
    /\ hDiscard' = DeckAppend(hDiscard, <<c>>, DiscardMaxCards)
    /\ hMyTurn' = turn
    /\ UNCHANGED <<hTop, hHand, hRules, hCall, hBuffer, hLegal, bCall>>

(***************************************************************************)
(* Specifications                                                          *)
(***************************************************************************)
vars == <<gameVars, cardVars, moveVars, deckVars, handVars, bufferVars, ruleVars>>

SpecCardInit == GameIdle /\ CardInit /\ MoveIdle /\ DeckIdle /\ HandIdle /\ BufferIdle /\ RulesIdle

SpecCardNext ==
    \/ AndAB /\ UNCHANGED <<gameVars, moveVars, deckVars, handVars, bufferVars, ruleVars>>
    \/ AndBA /\ UNCHANGED <<gameVars, moveVars, deckVars, handVars, bufferVars, ruleVars>>

SpecCard == SpecCardInit /\ [][SpecCardNext]_vars

SpecMoveInit == GameIdle /\ CardIdle /\ MoveInit /\ DeckIdle /\ HandIdle /\ BufferIdle /\ RulesIdle

SpecMoveNext == CanReplaceCall /\ UNCHANGED <<gameVars, cardVars, deckVars, handVars, bufferVars, ruleVars>>

SpecMove == SpecMoveInit /\ [][SpecMoveNext]_vars

SpecDeckInit == GameIdle /\ CardIdle /\ MoveIdle /\ DeckInit /\ HandIdle /\ BufferIdle /\ RulesIdle

SpecDeckNext ==
    \/ (\E n \in 0..MaxDeal : DealCall(n))
           /\ UNCHANGED <<gameVars, cardVars, moveVars, handVars, bufferVars, ruleVars>>
    \/ (\E new \in SeqsUpTo(DeckCards, MaxDeal) : AppendCall(new))
           /\ UNCHANGED <<gameVars, cardVars, moveVars, handVars, bufferVars, ruleVars>>

SpecDeck == SpecDeckInit /\ [][SpecDeckNext]_vars

SpecHandInit == GameIdle /\ CardIdle /\ MoveIdle /\ DeckIdle /\ HandInit /\ BufferIdle /\ RulesIdle

SpecHandNext ==
    \/ StackingGetMovesCall /\ UNCHANGED <<gameVars, cardVars, moveVars, deckVars, bufferVars, ruleVars>>
    \/ MathGetMovesCall /\ UNCHANGED <<gameVars, cardVars, moveVars, deckVars, bufferVars, ruleVars>>
    \/ UpdateLegalMovesCall /\ UNCHANGED <<gameVars, cardVars, moveVars, deckVars, bufferVars, ruleVars>>

SpecHand == SpecHandInit /\ [][SpecHandNext]_vars

SpecCycleInit == CycleInit /\ CardIdle /\ MoveIdle /\ DeckIdle /\ HandIdle /\ BufferIdle /\ RulesIdle

SpecCycleNext == CycleHandsCall /\ UNCHANGED <<cardVars, moveVars, deckVars, handVars, bufferVars, ruleVars>>

SpecCycle == SpecCycleInit /\ [][SpecCycleNext]_vars

SpecBufferInit == GameIdle /\ CardIdle /\ MoveIdle /\ DeckIdle /\ BufferInit /\ RulesIdle

SpecBufferNext ==
    \/ BufferUpdateLegalMoves /\ UNCHANGED <<gameVars, cardVars, moveVars, deckVars, ruleVars>>
    \/ (\E i \in 0..MaxHand : MoveCardToBuffer(i))
           /\ UNCHANGED <<gameVars, cardVars, moveVars, deckVars, ruleVars>>
    \/ PlayBufferedCards /\ UNCHANGED <<gameVars, cardVars, moveVars, deckVars, ruleVars>>

SpecBuffer == SpecBufferInit /\ [][SpecBufferNext]_vars

SpecRulesInit == RulesInit /\ CardIdle /\ MoveIdle /\ DeckIdle /\ HandIdle /\ BufferIdle

SpecRulesNext ==
    \/ (\E i \in -1..MaxRuleIndex : DrawRuleCall(i))
           /\ UNCHANGED <<cardVars, moveVars, deckVars, handVars, bufferVars>>
    \/ (\E i \in 0..MaxRuleIndex : DiscardSlotCall(i))
           /\ UNCHANGED <<cardVars, moveVars, deckVars, handVars, bufferVars>>
    \/ (\E s \in Places : DiscardSlotObjectCall(s))
           /\ UNCHANGED <<cardVars, moveVars, deckVars, handVars, bufferVars>>
    \/ (\E w \in Places, arg \in RuleArgs, t \in Places : ReviveCall(w, arg, t))
           /\ UNCHANGED <<cardVars, moveVars, deckVars, handVars, bufferVars>>
    \/ (\E w \in Places, arg \in RuleArgs : PopCall(w, arg))
           /\ UNCHANGED <<cardVars, moveVars, deckVars, handVars, bufferVars>>
    \/ (\E s \in Places, on \in BOOLEAN : ChaosSetActive(s, on))
           /\ UNCHANGED <<cardVars, moveVars, deckVars, handVars, bufferVars>>
    \/ (\E s \in Places, n \in {-3, -1, 1} : ChaosLives(s, n))
           /\ UNCHANGED <<cardVars, moveVars, deckVars, handVars, bufferVars>>
    \/ (\E s \in Places : RemoverSetActive(s))
           /\ UNCHANGED <<cardVars, moveVars, deckVars, handVars, bufferVars>>

SpecRules == SpecRulesInit /\ [][SpecRulesNext]_vars

SpecDiscardNext ==
    \/ DrawRuleCall(-1) /\ UNCHANGED <<cardVars, moveVars, deckVars, handVars, bufferVars>>
    \/ (\E i \in 0..MaxRuleIndex : DiscardSlotCall(i))
           /\ UNCHANGED <<cardVars, moveVars, deckVars, handVars, bufferVars>>
    \/ (\E s \in Places : DiscardSlotObjectCall(s))
           /\ UNCHANGED <<cardVars, moveVars, deckVars, handVars, bufferVars>>

SpecDiscard == SpecRulesInit /\ [][SpecDiscardNext]_vars

SpecSlapInit == SlapInit /\ CardIdle /\ MoveIdle /\ DeckIdle /\ HandIdle /\ BufferIdle /\ RulesIdle

SpecSlapNext ==
    \/ (\E p \in 0..(numPlayers - 1) : SlapCall(p))
           /\ UNCHANGED <<cardVars, moveVars, deckVars, handVars, bufferVars, ruleVars>>
    \/ SlapCheck /\ UNCHANGED <<cardVars, moveVars, deckVars, handVars, bufferVars, ruleVars>>

SpecSlap == SpecSlapInit /\ [][SpecSlapNext]_vars

SpecTwinInit == TwinInit /\ CardIdle /\ MoveIdle /\ DeckIdle /\ HandIdle /\ BufferIdle

SpecTwinNext ==
    (\E s \in 1..Len(ruleSlots), on \in BOOLEAN : CardSetActive(s, on))
        /\ UNCHANGED <<cardVars, moveVars, deckVars, handVars, bufferVars>>

SpecTwin == SpecTwinInit /\ [][SpecTwinNext]_vars

SpecDepletersInit == GameIdle /\ CardIdle /\ MoveIdle /\ DeckIdle /\ DepleterInit /\ BufferIdle /\ RulesIdle

SpecDepletersNext ==
    (\E duplicate \in BOOLEAN : DepletersGetMovesCall(duplicate))
        /\ UNCHANGED <<gameVars, cardVars, moveVars, deckVars, bufferVars, ruleVars>>

SpecDepleters == SpecDepletersInit /\ [][SpecDepletersNext]_vars

\* one player's hand and buffer between plays: cards go to the buffer and
\* back while other players change the discard pile
OtherCards == {Card("green", "4", {0}), Card("red", "7", {0})}

SpecPlayerNext ==
    \/ (\E i \in -MaxHand..MaxHand : MoveCardToBuffer(i))
           /\ UNCHANGED <<gameVars, cardVars, moveVars, deckVars, ruleVars>>
    \/ (\E n \in -2..(MaxHand + 1) : PopBufferCall(n))
           /\ UNCHANGED <<gameVars, cardVars, moveVars, deckVars, ruleVars>>
    \/ InterruptMoveCall /\ UNCHANGED <<gameVars, cardVars, moveVars, deckVars, ruleVars>>
    \/ (\E c \in OtherCards, turn \in BOOLEAN : OtherPlayerPlays(c, turn))
           /\ UNCHANGED <<gameVars, cardVars, moveVars, deckVars, ruleVars>>

SpecPlayerInit == SpecBufferInit /\ hRules = RulesOff

SpecPlayer == SpecPlayerInit /\ [][SpecPlayerNext]_vars

\* draw_rule calls alone, from the layout reset_rules makes
SpecDrawNext ==
    (\E i \in -1..MaxRuleIndex : DrawRuleCall(i))
        /\ UNCHANGED <<cardVars, moveVars, deckVars, handVars, bufferVars>>

SpecDraw == SpecRulesInit /\ [][SpecDrawNext]_vars

Init == GameInit /\ CardIdle /\ MoveIdle /\ DeckIdle /\ HandIdle /\ BufferIdle /\ RulesIdle

Next ==
    \/ (\E p \in 0..(numPlayers - 1) : \E buffer \in Buffers(hands[p]) : Play(p, buffer))
           /\ UNCHANGED <<cardVars, moveVars, deckVars, handVars, bufferVars, ruleVars>>
    \/ (\E target \in Targets : Update(target))
           /\ UNCHANGED <<cardVars, moveVars, deckVars, handVars, bufferVars, ruleVars>>
    \/ Draw /\ UNCHANGED <<cardVars, moveVars, deckVars, handVars, bufferVars, ruleVars>>
    \/ NextCall /\ UNCHANGED <<cardVars, moveVars, deckVars, handVars, bufferVars, ruleVars>>
    \/ ReverseCall /\ UNCHANGED <<cardVars, moveVars, deckVars, handVars, bufferVars, ruleVars>>
    \/ (\E p \in 0..(numPlayers - 1) : JumpIn(p))
           /\ UNCHANGED <<cardVars, moveVars, deckVars, handVars, bufferVars, ruleVars>>

Spec == Init /\ [][Next]_vars

(***************************************************************************)
(* Properties                                                              *)
(***************************************************************************)
\* C3: Deck.deal(n) never fails: on any deck of non-zero capacity, whatever
\* its contents, it returns exactly n cards
C3_DealReturnsN ==
    (dkCall.op = "deal" /\ dkMaxCards # 0) =>
        (dkCall.err = "none" /\ Len(dkCall.drawn) = dkCall.n)

\* C4: after any Deck.append the pile holds at most maxCards cards, for
\* every configured capacity
C4_AppendWithinCapacity ==
    dkCall.op = "append" => Len(dkCards) <= dkMaxCards

\* C6: A is compatible with B if and only if B is compatible with A
C6_CompatibleSymmetric ==
    (andAB # Unset /\ andBA # Unset) => (Truthy(andAB) <=> Truthy(andBA))

\* C6 witness: both directions evaluated for two cards of different color
\* and type of which exactly one is wild
C6_Witness ==
    /\ andAB # Unset /\ andBA # Unset
    /\ cardA.color # cardB.color /\ cardA.type # cardB.type
    /\ IsWild(cardA.type) /\ ~IsWild(cardB.type)

\* what the data model says can_replace(candidate, reference) is
CanReplaceSpec(c, r) ==
    /\ MoveLen(c) > 0
    /\ MoveToSet(c) \subseteq MoveToSet(r)
    /\ (c.enforceMatch \/ r.enforceMatch) =>
           (MoveToSet(c) = MoveToSet(r) /\ MoveLen(c) = MoveLen(r))
    /\ (Range(c.bottom) \subseteq Range(r.bottom) \/ r.bottom = <<>>)
    /\ (Range(c.top) \subseteq Range(r.top) \/ r.top = <<>>)

\* C7: can_replace is true exactly when the candidate is a non-empty subset
\* of the reference, equal in set and length under enforceMatch, with its
\* bottom and top inside the reference's (or the reference's empty)
C7_CanReplaceCharacterised ==
    mvOut \in {"True", "False"} => ((mvOut = "True") <=> CanReplaceSpec(mvSelf, mvOther))

\* C7 witness: a replaceable candidate that is a proper part of a reference
\* with a non-empty bottom layer
C7_Witness ==
    /\ mvOut = "True"
    /\ mvOther.bottom # <<>> /\ mvSelf.bottom # <<>>
    /\ MoveLen(mvSelf) < MoveLen(mvOther)

\* C8: m.can_replace(m) is true for every non-empty move and false for the
\* empty move
C8_CanReplaceReflexive ==
    (mvOut \in {"True", "False"} /\ mvSelf = mvOther) =>
        ((mvOut = "True") <=> (MoveLen(mvSelf) > 0))

\* C8 witness: a layered exact-match move checked against itself
C8_Witness ==
    /\ mvOut = "True" /\ mvSelf = mvOther
    /\ mvSelf.enforceMatch /\ mvSelf.bottom = <<>> /\ mvSelf.top # <<>>
    /\ MoveLen(mvSelf) = 2

\* C5: on the player's own turn, with no move-contributing rule enabled,
\* a hand card has a one-card Move among the legal moves if and only if it
\* is compatible with the top card
C5_NormalMovesCompatible ==
    (/\ hCall.op = "update_legal_moves" /\ hMyTurn
     /\ ~hRules.stacking /\ ~hRules.depleters /\ ~hRules.jumpIns /\ ~hRules.math) =>
        /\ hCall.err = "none"
        /\ \A i \in 1..Len(hHand) :
               (MoveOfCard(hHand[i]) \in Range(hCall.moves)) <=> Compatible(hHand[i], hTop)

\* the draw cards among the cards of the one-card moves returned
ReturnedCards == {m.middle[1] : m \in Range(hCall.moves)}

StackActive == hRules.stackCount > 0 /\ hRules.stacking

SumPairs(v) ==
    {p \in (1..Len(hHand)) \X (1..Len(hHand)) :
         /\ p[1] < p[2]
         /\ IsDigit(hHand[p[1]].type) /\ IsDigit(hHand[p[2]].type)
         /\ IntOf(hHand[p[1]].type) + IntOf(hHand[p[2]].type) = v}

\* C10: with addition enabled and a number top card of value v,
\* MathRules.get_moves returns exactly one exact-match Move, both cards in
\* the middle layer, for each unordered pair of number cards of the hand
\* that sums to v, and nothing else
C10_MathAddition ==
    (/\ hCall.op = "MathRules.get_moves"
     /\ hRules.addition /\ ~hRules.subtraction /\ IsDigit(hTop.type)) =>
        /\ hCall.err = "none"
        /\ Len(hCall.moves) = Cardinality(SumPairs(IntOf(hTop.type)))
        /\ \A p \in SumPairs(IntOf(hTop.type)) :
               \E k \in 1..Len(hCall.moves) :
                   hCall.moves[k] = Move(<<hHand[p[1]], hHand[p[2]]>>, <<>>, <<>>, TRUE)

\* C1: after any sequence of Game.update, Game.draw, Game.next,
\* Game.reverse and JumpIns.update in a game of at least one player, toMove
\* is a seat of the game and direction is +1 or -1.
C1_TurnPointerInRange ==
    numPlayers >= 1 => /\ toMove \in 0..(numPlayers - 1)
                       /\ direction \in {1, -1}

\* a call has just carried the turn around the table against the seat order:
\* from seat 0 to the last seat with direction -1
C1_Witness ==
    /\ numPlayers >= 3
    /\ last.op \in {"update", "draw", "next", "jump in"}
    /\ last.toMove = 0 /\ direction = -1
    /\ toMove = numPlayers - 1

\* whether the plays since the last update are one skip card played by the
\* player whose turn it was
OneSkipPlayed(c) ==
    /\ Len(c.plays) = 1
    /\ c.plays[1].player = c.toMove
    /\ Len(c.plays[1].cards) = 1
    /\ TypeEq(c.plays[1].cards[1].type, "skip")

\* C2: when the player at toMove = p has played a single skip card as the
\* only card added to the discard pile and no stack is active, a Game.update
\* that returns leaves toMove = (p + 2 * direction) mod numPlayers with
\* direction unchanged.
C2_SkipAdvancesTwice ==
    (/\ last.op = "update" /\ gErr = "none"
     /\ OneSkipPlayed(last)
     /\ last.stackCount = 0 /\ stackingCount = 0)
        => /\ toMove = (last.toMove + 2 * last.direction) % numPlayers
           /\ direction = last.direction

\* C11: for every number of players n >= 2 and either direction d, a call
\* of Game.cycle_hands returns and leaves player i with the hand player
\* (i - d) mod n held before the call.
C11_CycleHandsRotates ==
    [][(CycleHandsCall /\ numPlayers >= 2) =>
           /\ gErr' = "none"
           /\ \A i \in 0..(numPlayers - 1) :
                  hands'[i] = hands[(i - direction) % numPlayers]]_vars

\* cycle_hands has returned at a table of four with direction +1 where the
\* four hands are not all alike
C11_Witness ==
    /\ last.op = "cycle_hands" /\ gErr = "none"
    /\ numPlayers = 4 /\ direction = 1
    /\ hands[0] # hands[1] /\ hands[2] # hands[3]

\* the cards Stacking.flush makes the player draw for the stack
FlushAmount == PyRound(stackingCount * multiplier[1], multiplier[2])

\* what a Game.draw step that makes the current player draw k cards and
\* then moves the turn on by `advance` seats leaves behind
DrawOutcome(k, advance) ==
    /\ gErr' = "none"
    /\ Len(hands'[toMove]) = Len(hands[toMove]) + k
    /\ \A i \in 0..(numPlayers - 1) : i # toMove => hands'[i] = hands[i]
    /\ stackingCount' = 0
    /\ toMove' = (toMove + advance * direction) % numPlayers

\* C19: Game.draw with an active stack makes the current player draw exactly
\* round(stackCount * attack multiplier) cards, resets stackCount to 0 and
\* advances toMove by one seat whether or not DrawToPlay is enabled; no other
\* hand changes.
C19_DrawWithStack ==
    [][(Draw /\ stackingCount > 0) => DrawOutcome(FlushAmount, 1)]_vars

\* C20: Game.draw with no active stack makes the current player draw exactly
\* one card; toMove advances by one seat if DrawToPlay is disabled and is
\* unchanged if it is enabled.
C20_DrawWithoutStack ==
    [][(Draw /\ stackingCount = 0) =>
           DrawOutcome(1, IF rulesEnabled["draw to play"] THEN 0 ELSE 1)]_vars

\* how many times card c occurs in the list s
Count(s, c) == Cardinality({i \in DOMAIN s : s[i] = c})

\* C16: play_buffered_cards with a buffered sequence that cannot replace any
\* currently legal Move rejects the play and returns the buffered cards to
\* the hand (the buffer is empty afterwards); the discard pile, whose turn
\* it is and stackCount are unchanged.
C16_RejectedPlayReturnsCards ==
    [][(PlayBufferedCards /\ hBuffer # <<>> /\ ~IsMoveComplete(hBuffer, hLegal)) =>
           /\ bCall'.ret = FALSE /\ bCall'.err = "none"
           /\ hBuffer' = <<>>
           /\ \A c \in HandCards : Count(hHand', c) = Count(hHand, c) + Count(hBuffer, c)
           /\ hDiscard' = hDiscard /\ hMyTurn' = hMyTurn
           /\ hRules'.stackCount = hRules.stackCount]_vars

\* the card on top of rule slot s
TopOf(slots, s) == slots[s].ruleCards[Len(slots[s].ruleCards)]

\* C12: when an inactive TotalChaosCard is activated on a rule slot, then
\* once the activation completes lives = 3, every rule of the registry is
\* enabled, Stacking's conditions include reverse, skip and draw any, the
\* attack multiplier is 1 and every other rule slot has been discarded,
\* whichever cards were active in the other slots.
C12_ChaosActivation ==
    [][\A s \in Places :
           (ChaosSetActive(s, TRUE) /\ ~TopOf(ruleSlots, s).isActive) =>
               /\ rCall'.err = "none"
               /\ Len(ruleSlots') = 1
               /\ TopOf(ruleSlots', 1) = [TopOf(ruleSlots, s) EXCEPT !.isActive = TRUE, !.lives = 3]
               /\ \A n \in RuleNames : rulesEnabled'[n]
               /\ {"reverse", "skip", "draw any"} \subseteq stackingConditions'
               /\ multiplier' = <<1, 1>>]_vars

\* the rule cards lying in the rule slots and in the rule discard
CardsInPlay ==
    Range(ruleDiscard.ruleCards) \cup UNION {Range(ruleSlots[s].ruleCards) : s \in 1..Len(ruleSlots)}

\* C13: after any sequence of TotalChaosCard.set_active, add_lives and
\* remove_lives calls an active TotalChaosCard has lives > 0, and as soon as
\* the lives of the card reach 0 the card is inactive and Game.reset_rules
\* has run (it returned, and totalChaos is false).
C13_ChaosLives ==
    /\ [](\A c \in CardsInPlay : (c.kind = "total chaos" /\ c.isActive) => c.lives > 0)
    /\ [][\A s \in Places :
             (/\ ChaosSetActive(s, TRUE) \/ ChaosSetActive(s, FALSE)
                    \/ \E n \in {-3, -1, 1} : ChaosLives(s, n)
              /\ TopOf(ruleSlots, s).lives > 0
              /\ TopOf(ruleSlots', s).lives <= 0) =>
                 (~TopOf(ruleSlots', s).isActive /\ rCall'.err = "none" /\ ~totalChaos')]_vars

\* C14: in every reachable state each RuleSlot holds at most one active
\* RuleCard, and an active card is always the top card of a slot whose
\* topActive is true.
C14_OneActiveOnTop ==
    \A w \in Places :
        LET slot == SlotAtPlace(R, w)
        IN  \A k \in DOMAIN slot.ruleCards :
                slot.ruleCards[k].isActive => (k = Len(slot.ruleCards) /\ slot.topActive)

\* C15: the shared ruleDiscard slot is inert: after any sequence of
\* Game.discard_slot and Game.draw_rule(None) calls ruleDiscard.topActive is
\* false and every RuleCard held in ruleDiscard is inactive.
C15_DiscardInert ==
    /\ ~ruleDiscard.topActive
    /\ \A k \in DOMAIN ruleDiscard.ruleCards : ~ruleDiscard.ruleCards[k].isActive

\* a card drawn with draw_rule(None) lies in ruleDiscard, and discard_slot
\* has been called since
C15_Witness ==
    /\ rCall.op = "discard_slot" /\ rCall.calls >= 2
    /\ ruleDiscard.ruleCards # <<>>

\* C17: RuleSlot.revive and RuleSlot.pop called with an index or a card that
\* is not present in the slot are no-ops: no error escapes and the source
\* slot, the target slot and the rule registry are unchanged.
C17_AbsentCardNoOp ==
    [][\A w \in Places, arg \in RuleArgs :
           (/\ PopCall(w, arg) \/ \E t \in Places : ReviveCall(w, arg, t)
            /\ ArgPosition(SlotAtPlace(R, w).ruleCards, arg) = 0) =>
               /\ rCall'.err = "none"
               /\ UNCHANGED <<ruleSlots, ruleDiscard, rulesEnabled, stackingConditions,
                              multiplier>>]_vars

\* the ids of the rule cards in the rule deck, the rule slots (those still in
\* the deck too) and the rule discard, one entry per place a card lies in
RECURSIVE IdsOf(_)
IdsOf(items) ==
    IF items = <<>> THEN <<>>
    ELSE IF IsSlot(Head(items)) THEN IdsOf(Head(items).ruleCards) \o IdsOf(Tail(items))
    ELSE <<Head(items).id>> \o IdsOf(Tail(items))

AllRuleCards(r) == IdsOf(r.deck) \o IdsOf(r.slots) \o IdsOf(<<r.discard>>)

\* C18: rule cards are only relocated, never duplicated or lost: draw_rule,
\* discard_slot, append, revive, SlotRemover activation and TotalChaosCard
\* activation leave the multiset of rule cards over ruleDeck, all ruleSlots
\* and ruleDiscard unchanged, with no card in two places.
C18_CardsOnlyRelocated ==
    [][rCall'.op # "pop" =>
           \A id \in 1..5 :
               /\ Count(AllRuleCards(R)', id) = Count(AllRuleCards(R), id)
               /\ Count(AllRuleCards(R)', id) <= 1]_vars

\* C21: JumpIns.update for a jumping player p with the rule enabled leaves
\* toMove = (p + direction) mod numPlayers and direction unchanged, whatever
\* toMove was before; with the rule disabled toMove is unchanged.
C21_JumpInRepointsTurn ==
    [][\A p \in 0..(numPlayers - 1) :
           JumpIn(p) =>
               /\ gErr' = "none" /\ direction' = direction
               /\ toMove' = IF rulesEnabled["jump ins"]
                            THEN (p + direction) % numPlayers ELSE toMove]_vars

\* a jump-in, with the rule enabled, of a player who was not the one to move
\* and whose successor is not the successor of the one to move
C21_Witness ==
    /\ last.op = "jump in" /\ rulesEnabled["jump ins"] /\ gErr = "none"
    /\ last.player # last.toMove /\ numPlayers >= 3
    /\ toMove = (last.player + direction) % numPlayers

\* the number of cards appended to the discard pile by the plays in ps
RECURSIVE CardsPlayed(_)
CardsPlayed(ps) == IF ps = <<>> THEN 0 ELSE Len(Head(ps).cards) + CardsPlayed(Tail(ps))

\* C22: for every call to Game.update made after a player appended k >= 1
\* cards to the discard pile since the previous update, the delta update
\* computes, len(discard) - _discardHeight, is exactly k, so the turn is
\* treated as a play; also when the discard pile was already full.
C22_DeltaIsCardsPlayed ==
    [][\A t \in Targets :
           (Update(t) /\ plays # <<>>) =>
               Len(discard) - discardHeight = CardsPlayed(plays)]_vars

\* the fields as Game._apply_rules leaves them in this update
AfterRules(t) ==
    ApplyRules(G, rulesEnabled, stackingConditions, discard, discardHeight, t, numPlayers)

\* whether Stacking.get_moves returns a card of the hand for a stack of
\* count cards
HoldsStackable(hand, count, on) ==
    StackingGetMoves(GetTop(discard), hand, stackingConditions, count, on).moves # <<>>

\* C23: in Game.update after a play that leaves stackCount > 0, if the player
\* at the newly advanced toMove holds no card returned by
\* Stacking.get_moves, update forces that player through Stacking.flush: the
\* player draws round(stackCount * multiplier) cards and stackCount is 0
\* when update returns.
C23_UpdateFlushesUnanswered ==
    [][\A t \in Targets :
           (/\ Update(t) /\ Len(discard) > discardHeight /\ gErr' = "none"
            /\ AfterRules(t).stackCount > 0
            /\ ~HoldsStackable(AfterRules(t).hands[toMove'], AfterRules(t).stackCount,
                               AfterRules(t).stacking)) =>
               /\ stackingCount' = 0
               /\ Len(hands'[toMove']) =
                      Len(AfterRules(t).hands[toMove'])
                      + PyRound(AfterRules(t).stackCount * multiplier[1], multiplier[2])]_vars

\* the card on top of the discard pile makes Game._apply_action_cards set
\* a skip
TopIsSkipType ==
    \/ IsSkip(GetTop(discard).type)
    \/ IsReverse(GetTop(discard).type) /\ numPlayers = 2

\* the direction of play once a reverse on top of the pile has been applied
DirectionAfterTop(d) == IF IsReverse(GetTop(discard).type) THEN -d ELSE d

\* C24: in Game.update after a play of a skip-type card while stackCount > 0,
\* the pending skip is cancelled if and only if the player at the newly
\* advanced toMove holds a card returned by Stacking.get_moves; when that
\* player holds none, toMove is advanced by direction a second time.
C24_SkipCancelledIffStackable ==
    [][\A t \in Targets :
           (/\ Update(t) /\ Len(discard) > discardHeight /\ gErr' = "none"
            /\ TopIsSkipType /\ AfterRules(t).stackCount > 0) =>
               LET g == AfterRules(t)
                   d == DirectionAfterTop(g.direction)
                   once == (g.toMove + d) % numPlayers
                   twice == (g.toMove + 2 * d) % numPlayers
               IN  toMove' = IF HoldsStackable(g.hands[once], g.stackCount, g.stacking)
                             THEN once ELSE twice]_vars

\* Stacking.update applied to the discard pile and its new cards
StackOverDiscard ==
    StackingUpdate(G, discard, Len(discard) - discardHeight, stackingConditions)

\* C25: Stacking.update, when the rule is enabled, inspects exactly the cards
\* newly appended to the discard pile in the last play, in play order: each
\* card that matches a stacking condition adds its drawAmount to stackCount,
\* at the first card that does not match stackCount is reset to 0 and the
\* rest of the delta is ignored; stackCount is never negative.
C25_StackingReadsDiscardDelta ==
    [][\A t \in Targets :
           (/\ Update(t) /\ Len(discard) > discardHeight /\ gErr' = "none"
            /\ stackingConditions # {} /\ StackOverDiscard.err = "none") =>
               /\ stackingCount' = StackOverDiscard.stackCount
               /\ stackingCount' >= 0]_vars

\* C26: Game.update called when no card was appended to the discard pile
\* since the previous update (the player only drew) advances toMove by
\* exactly direction modulo numPlayers and changes nothing else: direction,
\* stackCount, every player's hand and the SlapJacks state are unchanged.
C26_UpdateWithoutPlayOnlyAdvances ==
    [][\A t \in Targets :
           (Update(t) /\ plays = <<>>) =>
               /\ gErr' = "none"
               /\ toMove' = (toMove + direction) % numPlayers
               /\ direction' = direction
               /\ stackingCount' = stackingCount
               /\ hands' = hands
               /\ slapped' = slapped /\ shouldSlap' = shouldSlap
               /\ drawPile' = drawPile /\ discard' = discard]_vars

\* an update that followed a draw and no play has passed the turn on
C26_Witness ==
    /\ last.op = "update" /\ last.plays = <<>> /\ ~last.played /\ gErr = "none"
    /\ \E p \in 0..(numPlayers - 1) : Len(hands[p]) > HandSize
    /\ toMove = (last.toMove + last.direction) % numPlayers
    /\ direction = last.direction /\ stackingCount = last.stackCount

\* C27: when the top card after a play is a reverse and no stack is active,
\* Game.update flips direction exactly once; with 3 or more players the turn
\* passes to the player one seat from the player who played in the new
\* direction, and with exactly 2 players the reverse acts as an additional
\* skip so the player who played it moves again.
C27_ReverseFlipsOnce ==
    [][\A t \in Targets :
           (/\ Update(t) /\ plays # <<>> /\ gErr' = "none"
            /\ IsReverse(GetTop(discard).type) /\ numPlayers >= 2
            /\ stackingCount = 0 /\ stackingCount' = 0) =>
               /\ direction' = -direction
               /\ toMove' = IF numPlayers = 2 THEN toMove
                             ELSE (toMove - direction) % numPlayers]_vars

\* the same statement for the plays that Game.update detects
C27_DetectedReverse ==
    [][\A t \in Targets :
           (/\ Update(t) /\ Len(discard) > discardHeight /\ gErr' = "none"
            /\ IsReverse(GetTop(discard).type) /\ numPlayers >= 2
            /\ stackingCount = 0 /\ stackingCount' = 0) =>
               /\ direction' = -direction
               /\ toMove' = IF numPlayers = 2 THEN toMove
                             ELSE (toMove - direction) % numPlayers]_vars

\* C28: RuleSlot.revive(c, target), for a card c at any position of the
\* source slot (not only the top), removes exactly that card from the source,
\* makes it the top card of target and activates it there, deactivating
\* target's previous top; the other cards keep their relative order and the
\* total number of rule cards is unchanged.
C28_ReviveMovesAndActivates ==
    [][\A w \in Places, arg \in RuleArgs, t \in Places :
           (ReviveCall(w, arg, t) /\ ArgPosition(SlotAtPlace(R, w).ruleCards, arg) # 0) =>
               LET src == SlotAtPlace(R, w).ruleCards
                   tgt == SlotAtPlace(R, t).ruleCards
                   k == ArgPosition(src, arg)
                   srcAfter == SlotAtPlace(R, w)'.ruleCards
                   tgtAfter == SlotAtPlace(R, t)'.ruleCards
                   rest == IF t = w THEN RemoveAt(src, k) ELSE tgt
               IN  /\ t # w => IdsOf(srcAfter) = IdsOf(RemoveAt(src, k))
                   /\ IdsOf(tgtAfter) = IdsOf(rest) \o <<src[k].id>>
                   /\ tgtAfter[Len(tgtAfter)].isActive
                   /\ \A i \in 1..Len(rest) : ~tgtAfter[i].isActive
                   /\ Len(AllRuleCards(R)') = Len(AllRuleCards(R))]_vars

\* the players of the table
Seats == 0..(numPlayers - 1)

\* C29: at a SlapJacks check where the slap condition was active since the
\* previous check and not every player slapped, including the case where no
\* player slapped at all, every player who did not slap draws exactly 2
\* cards and no player who slapped draws; afterwards the set of slappers is
\* empty.  g is the outcome of the check made in the current state.
C29_CheckPunishesNonSlappers ==
    LET g == SlapJacksUpdate(G, rulesEnabled["slap jacks"], numPlayers)
    IN  (/\ gErr = "none" /\ rulesEnabled["slap jacks"] /\ shouldSlap
         /\ Range(slapped) # Seats /\ g.err = "none") =>
            /\ \A p \in Seats :
                   Len(g.hands[p]) = Len(hands[p]) + IF p \in Range(slapped) THEN 0 ELSE 2
            /\ g.slapped = <<>>

\* C30: a player who slaps while shouldSlap is false immediately draws 2;
\* while shouldSlap is true, the 2-card penalty for slapping last is drawn
\* only once every distinct player has slapped, and only by the last of
\* them; a player who slaps more than once between checks is counted once.
C30_SlapPenalties ==
    [][\A p \in Seats :
           (SlapCall(p) /\ rulesEnabled["slap jacks"] /\ gErr' = "none") =>
               LET lastToSlap == p \notin Range(slapped) /\ Range(slapped) \cup {p} = Seats
                   penalty == IF ~shouldSlap \/ lastToSlap THEN 2 ELSE 0
               IN  /\ Len(hands'[p]) = Len(hands[p]) + penalty
                   /\ \A q \in Seats \ {p} : hands'[q] = hands[q]]_vars

\* C31: activating and then deactivating a MultiplierCard restores the attack
\* multiplier to the value it had before the activation, and activating an
\* already active card (or deactivating an already inactive one) does not
\* change the multiplier.
C31_MultiplierReversible ==
    rCall.kind = "multiplier" =>
        /\ (/\ rCall.op = "deactivate" /\ rCall.was
            /\ rCall.prevOp = "activate" /\ rCall.prevId = rCall.id /\ ~rCall.prevWas) =>
               multiplier = rCall.prevMult
        /\ (rCall.op = "activate" /\ rCall.was) => multiplier = rCall.mult
        /\ (rCall.op = "deactivate" /\ ~rCall.was) => multiplier = rCall.mult

\* an inactive MultiplierCard was activated, which changed the multiplier,
\* and then deactivated
C31_Witness ==
    /\ rCall.kind = "multiplier" /\ rCall.op = "deactivate" /\ rCall.was
    /\ rCall.prevOp = "activate" /\ rCall.prevId = rCall.id /\ ~rCall.prevWas
    /\ rCall.mult # rCall.prevMult /\ multiplier = rCall.prevMult

\* C32: playing a SlotRemover onto a rule slot discards exactly that slot:
\* the slot is removed from ruleSlots (their number drops by one), all its
\* cards including the SlotRemover are in ruleDiscard, the SlotRemover is
\* inactive afterwards, and every other rule slot is unchanged.
C32_RemoverDiscardsItsSlot ==
    [][\A s \in Places :
           RemoverSetActive(s) =>
               /\ Len(ruleSlots') = Len(ruleSlots) - 1
               /\ ruleSlots' = RemoveAt(ruleSlots, s)
               /\ \A i \in DOMAIN ruleSlots[s].ruleCards :
                      \E j \in DOMAIN ruleDiscard'.ruleCards :
                          ruleDiscard'.ruleCards[j].id = ruleSlots[s].ruleCards[i].id
               /\ \A j \in DOMAIN ruleDiscard'.ruleCards :
                      ruleDiscard'.ruleCards[j].kind = "slot remover" =>
                          ~ruleDiscard'.ruleCards[j].isActive]_vars

\* the unordered pairs of number cards of the hand whose values differ by v
DiffPairs(v) ==
    {p \in (1..Len(hHand)) \X (1..Len(hHand)) :
         /\ p[1] < p[2]
         /\ IsDigit(hHand[p[1]].type) /\ IsDigit(hHand[p[2]].type)
         /\ IntOf(hHand[p[1]].type) - IntOf(hHand[p[2]].type) \in {v, -v}}

\* the Move of a pair: the smaller card below the larger one, or both in the
\* middle layer when they are equal
DiffMove(a, b) ==
    IF IntOf(a.type) = IntOf(b.type) THEN Move(<<a, b>>, <<>>, <<>>, TRUE)
    ELSE IF IntOf(a.type) < IntOf(b.type) THEN Move(<<>>, <<a>>, <<b>>, TRUE)
    ELSE Move(<<>>, <<b>>, <<a>>, TRUE)

\* C33: with subtraction enabled and a number top card of value v,
\* MathRules.get_moves returns, for every unordered pair of number cards of
\* the hand whose absolute difference is v, an exact-match Move with the
\* smaller card in the bottom layer and the larger in the top layer (both in
\* the middle layer when v = 0), and no Move for any other pair or card.
C33_MathSubtraction ==
    (/\ hCall.op = "MathRules.get_moves"
     /\ hRules.subtraction /\ ~hRules.addition /\ IsDigit(hTop.type)) =>
        /\ hCall.err = "none"
        /\ Len(hCall.moves) = Cardinality(DiffPairs(IntOf(hTop.type)))
        /\ \A p \in DiffPairs(IntOf(hTop.type)) :
               \E k \in 1..Len(hCall.moves) :
                   hCall.moves[k] = DiffMove(hHand[p[1]], hHand[p[2]])

\* the colors of the hand's cards that have a 9 among them
NineColors == {hHand[i].color : i \in {x \in DOMAIN hHand : hHand[x].type = "9"}}

\* the Move of a color group: the other cards of the color in the middle
\* layer, its nines in the top layer
GroupMove(color) ==
    LET IsOther(c) == c.color = color /\ c.type # "9"
        IsNine(c) == c.color = color /\ c.type = "9"
    IN  Move(SelectSeq(hHand, IsOther), <<>>, SelectSeq(hHand, IsNine), FALSE)

\* C34: Depleters.get_moves with the rule enabled produces moves only when a
\* 9 is on top of the discard pile: for each color group of the hand that
\* contains at least one 9 it returns one Move with all non-nine cards of
\* that color in the middle layer and the 9(s) in the top layer, and it
\* returns no Move for a color group without a 9.
C34_DepleterMoves ==
    (hCall.op = "Depleters.get_moves" /\ hRules.depleters) =>
        /\ hCall.err = "none"
        /\ hTop.type # "9" => hCall.moves = <<>>
        /\ hTop.type = "9" =>
               /\ Len(hCall.moves) = Cardinality(NineColors)
               /\ \A color \in NineColors :
                      \E k \in 1..Len(hCall.moves) : hCall.moves[k] = GroupMove(color)

\* C35: Game.reset_rules resets the rule deck, the rule slots and the rule
\* discard: after it returns ruleDiscard holds no cards from before the
\* reset, there are exactly 3 rule slots, totalChaos is false, and the
\* TotalChaosCard is at the bottom of the rule deck.  reset_rules is called
\* by the set_active(False) that takes the last life of a TotalChaosCard.
C35_ResetRules ==
    [][\A s \in Places :
           (/\ ChaosSetActive(s, FALSE)
            /\ TopOf(ruleSlots, s).isActive /\ TopOf(ruleSlots, s).lives <= 1) =>
               /\ rCall'.err = "none"
               /\ Range(IdsOf(ruleDiscard'.ruleCards)) \cap Range(AllRuleCards(R)) = {}
               /\ Len(ruleSlots') = 3
               /\ ~totalChaos'
               /\ ruleDeck' # <<>> /\ ruleDeck'[1].kind = "total chaos"]_vars

\* the condition tokens of the active StackingCards in the slots and the
\* discard
ActiveTokens == {c.param : c \in {x \in CardsInPlay : x.kind = "stacking" /\ x.isActive}}

\* C36: a stacking condition token is in Stacking.conditions if and only if
\* at least one currently active StackingCard carries that token: when two
\* StackingCards with the same token are active in different slots and one
\* of them is deactivated, the token stays in the conditions while the
\* other card is still active.
C36_ConditionsOfActiveCards == stackingConditions = ActiveTokens


\* the Moves MathRules.get_moves builds, after its base call, for a hand that
\* holds the buffered cards and the cards still in the hand
MathPairMoves ==
    MathBody(hTop, hBuffer \o hHand, FALSE, hRules.addition, hRules.subtraction).moves

\* the buffer holds exactly the cards of Move m, in an order m allows
BufferedInOrder(m) ==
    /\ Len(hBuffer) = 2 /\ MoveLen(m) = 2 /\ m.enforceMatch
    /\ MoveToSet(m) = Range(hBuffer)
    /\ (m.bottom # <<>> => hBuffer[1] = m.bottom[1])
    /\ (m.top # <<>> => hBuffer[2] = m.top[1])

\* C37: when MathRules builds an exact-match two-card Move for the player's
\* cards and the player has buffered exactly those two cards in an order the
\* Move allows, is_move_complete is true of the buffer with that Move legal:
\* the test play_buffered_cards makes before it appends the buffered cards
C37_MathPairPlays ==
    \A k \in 1..Len(MathPairMoves) :
        BufferedInOrder(MathPairMoves[k]) => IsMoveComplete(hBuffer, <<MathPairMoves[k]>>)


\* C38: in a run of draw_rule calls from a freshly reset rule deck no call
\* pops from an empty rule deck: a call that reaches the deck finds a card on
\* it unless totalChaos is set, a call made after the TotalChaosCard was drawn
\* changes nothing, and no card is drawn after the TotalChaosCard
C38_DrawRuleNeverPopsEmpty ==
    [][\A i \in -1..MaxRuleIndex :
          (DrawRuleCall(i) /\ i < Len(ruleSlots)) =>
              /\ totalChaos \/ ruleDeck # <<>>
              /\ ruleDeck = <<>> => UNCHANGED <<ruleDeck, ruleSlots, ruleDiscard>>]_vars


\* how often card c occurs in the list cards
CountOf(cards, c) == Cardinality({i \in 1..Len(cards) : cards[i] = c})

\* two lists hold the same cards, each as often
SameCards(a, b) == \A c \in Range(a) \cup Range(b) : CountOf(a, c) = CountOf(b, c)

\* C39: no move_card_to_buffer, pop_buffer or interrupt_move call changes the
\* multiset of the cards in the player's hand and move buffer together, and a
\* move_card_to_buffer or pop_buffer call that returns False changes neither
\* the hand nor the buffer
C39_HandAndBufferKeepCards ==
    [][/\ SameCards(hHand' \o hBuffer', hHand \o hBuffer)
       /\ \A i \in -MaxHand..MaxHand :
              (MoveCardToBuffer(i) /\ ~bCall'.ret) => UNCHANGED <<hHand, hBuffer>>
       /\ \A n \in -2..(MaxHand + 1) :
              (PopBufferCall(n) /\ ~bCall'.ret) => UNCHANGED <<hHand, hBuffer>>]_vars

\* an interrupt_move has put two buffered cards back, or a pop_buffer(-1) or
\* pop_buffer(2) has
C39_Witness ==
    /\ bCall.op \in {"interrupt_move", "pop_buffer"}
    /\ bCall.moved = 2 /\ hBuffer = <<>> /\ Len(hHand) = 2


====
